---- MODULE Spec2Model ----
(***************************************************************************)
(* State-machine model of the ZBit connectors and strategies.              *)
(*                                                                         *)
(* Part 1: order-status handling of the perpetual connector                *)
(*         (zbit_perpetual_derivative.py: _process_order_update,           *)
(*          _process_order_status_response, _get_fee).                     *)
(* Part 2: positions and balances of the perpetual connector               *)
(*         (_process_account_update, _update_positions, _update_balances). *)
(* Part 3: the perpetual request dispatcher                                *)
(*         (zbit_perpetual_web_utils.py: api_request).                     *)
(* Part 4: order cancellation of the perpetual connector                   *)
(*         (_cancel_order, cancel, cancel_all).                            *)
(* Part 5: the long-running loops (_status_polling_loop of the perpetual   *)
(*         connector, _order_tracker_loop of the spot connector, the       *)
(*         perpetual listen_for_subscriptions, _run of the liquidity-      *)
(*         mining script), one order-status polling pass and the trading-  *)
(*         rule refresh.                                                   *)
(* Part 6: the TWAP strategy (zbit_twap.py).                               *)
(* Part 7: the AMM-arbitrage strategy (zbit_amm_arb.py): execution of one  *)
(*         proposal, order events and retries.                             *)
(* Part 8: the Avellaneda-Stoikov script                                   *)
(*         (zbit_avellaneda_market_making.py): tick, update_parameters,    *)
(*         create_new_orders.                                              *)
(* Part 9: the cross-exchange market-making script                         *)
(*         (zbit_cross_exchange_market_making.py): tick and the proposals  *)
(*         it makes.                                                       *)
(* Part 10: get_account_summary of the perpetual connector and the         *)
(*         order-tracker loop of the spot connector (zbit_exchange.py).    *)
(* Part 11: the standalone scripts: the subtitle merger (allvtt.py) and    *)
(*         the iterator demo (p02.py).                                     *)
(* Part 12: listen_for_subscriptions of the perpetual order-book data      *)
(*         source.                                                         *)
(***************************************************************************)
EXTENDS Integers, Sequences, FiniteSets, TLC

VARIABLES
    \* ---- Part 1: order tracker and the two order-status handlers
    tracked,      \* client order ids held in the tracker's in-flight set
    closed,       \* client order id -> how the tracker closed it ("none" while open)
    executed,     \* client order id -> filled quantity recorded by the tracker
    calls,        \* log of the tracker calls issued by the connector
    push,         \* the user-stream handler: [pc, msg]
    poll,         \* the polling handler: [pc, msg]
    dispatched,   \* log of handler dispatches, in dispatch order
    last,         \* the most recently finished handler run
    \* ---- Part 2: positions and balances
    trading_required,            \* constructor flag
    account_positions,           \* position id -> amount, for the ids held in the map
    account_balances,            \* asset -> total balance
    account_available_balances,  \* asset -> available balance
    lastReport,                  \* position id -> amount of its most recent report, if any
    lastRefresh,                 \* what the most recent balance refresh was given
    \* ---- Part 3: one api_request call
    apiPc,        \* "idle", "attempt" (loop head), "send", "recv", "done"
    apiArgs,      \* [throttler, synchronizer, limit_id, path] of the call
    retry,        \* the loop variable of `for retry in range(3)`
    response,     \* the outcome of the HTTP call awaiting handling
    trace,        \* the events of the call so far: acquire, http, resp, sync, sleep
    result,       \* how the call ended
    \* ---- Part 4: cancellation
    active_orders,         \* client order ids the tracker holds as active
    now,                   \* the wall clock, time.time()
    cancelPc,              \* cancel_all: "idle", "batch", "order", "done"
    snapshot,              \* the orders cancel_all found active when it was called
    deadline,              \* cancel_all: time.time() + timeout_seconds
    groups,                \* cancel_all: the trading pairs still to be visited
    todo,                  \* cancel_all: orders of the current pair awaiting a single cancel
    requests,              \* cancel requests issued by the current cancel_all call
    cancellation_results,  \* cancel_all: the result list
    lastCancel,            \* the most recent call of cancel(): [id, reply, signal, raised]
    \* ---- Part 5: long-running loops
    loopPc,       \* loop -> the await it is suspended at, or how it ended
    cycle,        \* updates performed so far in the current status-polling cycle
    errors,       \* errors logged by the status-polling loop so far
    delivered,    \* loops a cancellation has been delivered to
    passPc,       \* _update_order_status: "idle", "open_orders", "order", "done"
    tracked_n,    \* the number of orders the pass found tracked (numbered 1..n)
    batches,      \* the batches the pass still has to work through
    handled,      \* the orders the pass has reconciled or queried so far
    trading_rules,  \* trading pair -> rule, for the pairs held in the table
    exchange_info,  \* the symbol entries of the most recently fetched document
    prior_rules,    \* the pairs the table held before the most recent refresh
    refreshed,      \* whether the most recent refresh went through
    \* ---- Part 6: TWAP strategy
    target_asset_amount,  \* constructor argument (0 while no strategy is constructed)
    quantity_remaining,   \* self._quantity_remaining
    first_order,          \* self._first_order
    previous_timestamp,   \* self._previous_timestamp
    current_timestamp,    \* the clock's timestamp at the latest tick
    all_markets_ready,    \* self._all_markets_ready
    active_limit_orders,  \* the strategy's open orders: [quantity, filled, cancelling]
    time_to_cancel,       \* self._time_to_cancel of the order placed last
    filled_total,         \* the sum of all fill amounts reported so far
    twapLast,             \* what the most recent tick or event saw and did
    \* ---- Part 7: AMM-arbitrage strategy
    arbPc,                         \* "new", "idle", "waiting" (at completed_event.wait()), "done"
    concurrent_orders_submission,  \* self._concurrent_orders_submission
    max_retries,                   \* self._max_retries
    arb_orders,                    \* orders placed so far; the order id is the index
    order_id_side_map,             \* self._order_id_side_map: order id -> "first" / "second"
    sides,                         \* side -> [completed, failed] of the proposal's two sides
    retry_count,                   \* self._retry_count: order id -> retries counted
    retry_tasks,                   \* the retry_order tasks scheduled so far
    first_side_filled, \* set_order_completed was called with an order of the first side
    first_is_buy,      \* first_side.is_buy of the proposal (second_side is the opposite)
    \* ---- Part 8: Avellaneda-Stoikov script
    avPc,            \* "new" before the constructor ran, then "running"
    min_spread,      \* self._min_spread, in quarters (1 stands for 0.25)
    max_spread,      \* self._max_spread, in quarters
    order_levels,    \* self._order_levels
    markets_ready,   \* self._all_markets_ready
    price_samples,   \* self._price_samples; the k-th sample taken is written k
    samples_taken,   \* how many samples were appended so far
    volatility,      \* self._volatility, in quarters
    optimal,         \* self._optimal_bid = bid / den, self._optimal_ask = ask / den
    avLast,          \* what the most recent tick was given and did
    \* ---- Part 9: cross-exchange market-making script
    xemmPc,                    \* "new" before the constructor ran, then "running"
    active_order_canceling,    \* self._active_order_canceling
    min_order_amount,          \* self._min_order_amount (0 for None)
    xemm_ready,                \* self._all_markets_ready
    suggested_price_samples,   \* self._suggested_price_samples: <<bid, ask>> pairs
    active_bids,               \* self._active_bids: [price, amount] records
    active_asks,               \* self._active_asks
    xemmLast,                  \* what the most recent tick saw and did
    closed_on_maker,           \* sides whose listed order the maker market no longer holds open
    \* ---- Part 10: account summary; spot order-tracker loop
    account_summary,           \* what the last get_account_summary call gave
    in_flight_orders,          \* spot self._in_flight_orders, in insertion order
    trackerLast,               \* what the last pass of the tracker loop did
    spot_trading_required,     \* spot self._trading_required
    spot_account_balances,     \* spot self._account_balances: [asset, amount] items
    network,                   \* "stopped" or "started": the last of start/stop_network
    \* ---- Part 11: standalone scripts
    vttLast,                   \* the last merge_vtt_files call: its inputs and its outcome
    iterable,                  \* cont.iterable of the demo container
    iterators,                 \* the ContainerIterator objects obtained so far
    \* ---- Part 12: perpetual order-book listener
    listenPc,                  \* "connect", "listening" or "backoff"
    listen_pair,               \* the position of the for loop in self._trading_pairs
    ws_subscriptions,          \* the [pair, channel] subscriptions sent so far
    ws_last_sent,              \* the last payload sent on the open connection
    message_queues             \* per pair, the sizes of its diff and trade queues

orderVars == <<tracked, closed, executed, calls, push, poll, dispatched, last>>

accountVars == <<trading_required, account_positions, account_balances,
                 account_available_balances, lastReport, lastRefresh>>

apiVars == <<apiPc, apiArgs, retry, response, trace, result>>

cancelVars == <<active_orders, now, cancelPc, snapshot, deadline, groups,
                todo, requests, cancellation_results, lastCancel>>

loopVars == <<loopPc, cycle, errors, delivered, passPc, tracked_n, batches, handled,
              trading_rules, exchange_info, prior_rules, refreshed>>

twapVars == <<target_asset_amount, quantity_remaining, first_order, previous_timestamp,
              current_timestamp, all_markets_ready, active_limit_orders, time_to_cancel,
              filled_total, twapLast>>

arbVars == <<arbPc, concurrent_orders_submission, max_retries, arb_orders,
             order_id_side_map, sides, retry_count, retry_tasks, first_side_filled,
             first_is_buy>>

avVars == <<avPc, min_spread, max_spread, order_levels, markets_ready, price_samples,
            samples_taken, volatility, optimal, avLast>>

xemmVars == <<xemmPc, active_order_canceling, min_order_amount, xemm_ready,
              suggested_price_samples, active_bids, active_asks, xemmLast,
              closed_on_maker>>

spotVars == <<spot_trading_required, spot_account_balances, network>>

connVars == <<account_summary, in_flight_orders, trackerLast, spotVars>>

toolVars == <<vttLast, iterable, iterators>>

listenVars == <<listenPc, listen_pair, ws_subscriptions, ws_last_sent, message_queues>>

vars == <<orderVars, accountVars, apiVars, cancelVars, loopVars, twapVars, arbVars, avVars,
          xemmVars, connVars, toolVars, listenVars>>

\* What the actions of each part leave alone.
orderFrame == <<accountVars, apiVars, cancelVars, loopVars, twapVars, arbVars, avVars, xemmVars, connVars, toolVars, listenVars>>
accountFrame == <<orderVars, apiVars, cancelVars, loopVars, twapVars, arbVars, avVars, xemmVars, connVars, toolVars, listenVars>>
apiFrame == <<orderVars, accountVars, cancelVars, loopVars, twapVars, arbVars, avVars, xemmVars, connVars, toolVars, listenVars>>
cancelFrame == <<orderVars, accountVars, apiVars, loopVars, twapVars, arbVars, avVars, xemmVars, connVars, toolVars, listenVars>>
loopFrame == <<orderVars, accountVars, apiVars, cancelVars, twapVars, arbVars, avVars, xemmVars, connVars, toolVars, listenVars>>
twapFrame == <<orderVars, accountVars, apiVars, cancelVars, loopVars, arbVars, avVars, xemmVars, connVars, toolVars, listenVars>>
arbFrame == <<orderVars, accountVars, apiVars, cancelVars, loopVars, twapVars, avVars, xemmVars, connVars, toolVars, listenVars>>
avFrame == <<orderVars, accountVars, apiVars, cancelVars, loopVars, twapVars, arbVars, xemmVars, connVars, toolVars, listenVars>>
xemmFrame == <<orderVars, accountVars, apiVars, cancelVars, loopVars, twapVars, arbVars, avVars, connVars, toolVars, listenVars>>
connFrame == <<orderVars, accountVars, apiVars, cancelVars, loopVars, twapVars, arbVars, avVars, xemmVars, toolVars, listenVars>>
toolFrame == <<orderVars, accountVars, apiVars, cancelVars, loopVars, twapVars, arbVars, avVars, xemmVars, connVars, listenVars>>
listenFrame == <<orderVars, accountVars, apiVars, cancelVars, loopVars, twapVars, arbVars, avVars, xemmVars, connVars, toolVars>>

\* ------------------------------------------------------------------ bounds
Orders == {"o1"}
MaxQty == 2
MaxDispatch == 2
MaxAmt == 1
MaxBal == 2
MaxMargin == 1
MaxReports == 1
MaxMarginReports == 2
MaxTime == 2
MaxTimeout == 1
MaxElapsed == 1
MaxErrors == 2
MaxTracked == 21
MaxSymbols == 2
MaxTarget == 3
MaxClock == 7
OrderStepSize == 2
OrderDelayTime == 3
CancelOrderWaitTime == 2
MaxRetries == 1
MaxArbOrders == 3
market_1_slippage_buffer == 1
market_2_slippage_buffer == 2
MaxSamples == 60
MaxRefreshSamples == 2
MaxXemmTicks == 2
MaxLines == 4
MaxIterators == 3
MaxQueued == 2

\* ---------------------------------------------------------------- Part 1
\* Venue status strings: the keys of the ORDER_STATE table, which maps REJECTED
\* and EXPIRED both to the FAILED order state.
VenueStatus ==
    {"NEW", "PARTIALLY_FILLED", "FILLED", "CANCELED", "PENDING_CANCEL",
     "REJECTED", "EXPIRED"}

\* is_completed = status in {"FILLED", "CANCELED", "EXPIRED", "REJECTED"}
IsCompleted(status) == status \in {"FILLED", "CANCELED", "EXPIRED", "REJECTED"}
IsCancelled(status) == status = "CANCELED"
IsFailed(status) == status = "REJECTED"

\* _get_fee's parameter list, and those of its parameters without a default.
GetFeeParams ==
    {"base_currency", "quote_currency", "order_type", "order_side",
     "position_action", "amount", "price", "is_maker"}
GetFeeRequired ==
    {"base_currency", "quote_currency", "order_type", "order_side",
     "position_action", "amount"}

\* The keyword arguments both handlers pass to _get_fee.
HandlerFeeKwargs == {"trading_pair", "order_type", "trade_type", "amount", "price"}

\* Python's binding of a keyword-only call: every keyword is a parameter and every
\* parameter without a default is given; otherwise the call raises TypeError.
CallBinds(kwargs, params, required) == kwargs \subseteq params /\ required \subseteq kwargs

\* A status message as either handler parses it: client order id, status,
\* cumulative filled quantity (z / executedQty) and last fill quantity (l). The
\* venue reports a last fill of 1..z with PARTIALLY_FILLED and none otherwise.
Messages ==
    {m \in [id : Orders, status : VenueStatus, z : 0..MaxQty, l : 0..MaxQty] :
        IF m.status = "PARTIALLY_FILLED" THEN 1 <= m.l /\ m.l <= m.z ELSE m.l = 0}

Idle == [pc |-> "idle", msg |-> [id |-> "", status |-> "", z |-> 0, l |-> 0]]
NoRun == [path |-> "none", id |-> "", status |-> "", z |-> 0, l |-> 0,
          prev |-> 0, call |-> "untracked", amount |-> 0, trades |-> 0]

\* Tracker call names that close an order.
TerminalCalls == {"process_order_canceled", "process_order_failure", "process_order_completed"}

\* The tracker call the push handler makes for a status ("TypeError" when building
\* the arguments raises, "none" when no branch applies).
PushCall(status) ==
    IF IsCompleted(status)
    THEN IF IsCancelled(status) THEN "process_order_canceled"
         ELSE IF IsFailed(status) THEN "process_order_failure"
         ELSE IF CallBinds(HandlerFeeKwargs, GetFeeParams, GetFeeRequired)
              THEN "process_order_completed"
              ELSE "TypeError"
    ELSE IF status = "PARTIALLY_FILLED" THEN "process_trade_update"
    ELSE "none"

\* The tracker call the polling handler makes for a status.
PollCall(status) ==
    IF IsCompleted(status)
    THEN IF IsCancelled(status) THEN "process_order_canceled"
         ELSE IF IsFailed(status) THEN "process_order_failure"
         ELSE IF CallBinds(HandlerFeeKwargs, GetFeeParams, GetFeeRequired)
              THEN "process_order_completed"
              ELSE "TypeError"
    ELSE "process_order_update"

\* The amount carried by the call: the last-fill field for a push trade update, the
\* cumulative filled quantity for everything else.
CallAmount(path, call, m) ==
    IF path = "push" /\ call = "process_trade_update" THEN m.l ELSE m.z

\* How the tracker records a close.
CloseKind(call) ==
    CASE call = "process_order_canceled" -> "canceled"
      [] call = "process_order_failure" -> "failed"
      [] call = "process_order_completed" -> "completed"

\* The order tracker applying one call: a close removes a tracked order from the
\* in-flight set, a trade update adds to its filled quantity, an order update
\* overwrites it. A call for an id that is not tracked changes nothing.
TrackerApply(call, id, amount) ==
    IF id \notin tracked \/ call \in {"none", "TypeError"}
    THEN UNCHANGED <<tracked, closed, executed>>
    ELSE IF call \in TerminalCalls
    THEN /\ tracked' = tracked \ {id}
         /\ closed' = [closed EXCEPT ![id] = CloseKind(call)]
         /\ UNCHANGED executed
    ELSE /\ executed' = [executed EXCEPT ![id] =
                            IF call = "process_trade_update" THEN @ + amount ELSE amount]
         /\ UNCHANGED <<tracked, closed>>

\* Order placement: the host starts tracking a new order.
StartTrackingOrder(o) ==
    /\ o \notin tracked
    /\ closed[o] = "none"
    /\ tracked' = tracked \cup {o}
    /\ UNCHANGED <<closed, executed, calls, push, poll, dispatched, last>>
    /\ UNCHANGED orderFrame

\* A handler looks the order up and, if it is tracked, suspends on the symbol-map
\* await holding the message; an unknown order ends the handler at once. (The await
\* yields to the other handler while the symbol map is still empty and has to be
\* fetched; with the map loaded, dispatch and resumption follow each other.)
Dispatch(path, h, m) ==
    /\ h.pc = "idle"
    /\ Len(dispatched) < MaxDispatch
    /\ dispatched' = Append(dispatched, [path |-> path, id |-> m.id, status |-> m.status,
                                         found |-> m.id \in tracked])
    /\ last' = IF m.id \in tracked THEN last
               ELSE [NoRun EXCEPT !.path = path, !.id = m.id, !.status = m.status]

\* _process_order_update up to its await.
PushDispatch(m) ==
    /\ Dispatch("push", push, m)
    /\ push' = IF m.id \in tracked THEN [pc |-> "await", msg |-> m] ELSE Idle
    /\ UNCHANGED <<tracked, closed, executed, calls, poll>>
    /\ UNCHANGED orderFrame

\* _process_order_status_response up to its await.
PollDispatch(m) ==
    /\ Dispatch("poll", poll, m)
    /\ poll' = IF m.id \in tracked THEN [pc |-> "await", msg |-> m] ELSE Idle
    /\ UNCHANGED <<tracked, closed, executed, calls, push>>
    /\ UNCHANGED orderFrame

\* The rest of a handler after the await: classify the status and call the tracker.
Resume(path, m, call) ==
    /\ calls' = IF call = "none" THEN calls
                ELSE Append(calls, [op |-> call, id |-> m.id, path |-> path,
                                    amount |-> CallAmount(path, call, m)])
    /\ TrackerApply(call, m.id, CallAmount(path, call, m))
    /\ last' = [path |-> path, id |-> m.id, status |-> m.status, z |-> m.z, l |-> m.l,
                prev |-> executed[m.id], call |-> call,
                amount |-> CallAmount(path, call, m),
                trades |-> IF call = "process_trade_update" THEN 1 ELSE 0]
    /\ UNCHANGED dispatched

PushResume ==
    /\ push.pc = "await"
    /\ Resume("push", push.msg, PushCall(push.msg.status))
    /\ push' = Idle
    /\ UNCHANGED poll
    /\ UNCHANGED orderFrame

PollResume ==
    /\ poll.pc = "await"
    /\ Resume("poll", poll.msg, PollCall(poll.msg.status))
    /\ poll' = Idle
    /\ UNCHANGED push
    /\ UNCHANGED orderFrame

InitOrders ==
    /\ tracked = {}
    /\ closed = [o \in Orders |-> "none"]
    /\ executed = [o \in Orders |-> 0]
    /\ calls = <<>>
    /\ push = Idle
    /\ poll = Idle
    /\ dispatched = <<>>
    /\ last = NoRun

NextOrders ==
    \/ \E o \in Orders : StartTrackingOrder(o)
    \/ \E m \in Messages : PushDispatch(m)
    \/ \E m \in Messages : PollDispatch(m)
    \/ PushResume
    \/ PollResume

\* ---------------------------------------------------------------- Part 2
\* position_id = f"{symbol}_{positionSide}"
PositionIds == {"BTCUSDT_LONG", "BTCUSDT_SHORT", "ETHUSDT_LONG"}
Assets == {"USDT"}

\* Sequences over S of length at most n.
SeqUpTo(S, n) == UNION {[1..k -> S] : k \in 0..n}

\* The position entries of an ACCOUNT_UPDATE event ("P") or of a positions response.
PositionReports == SeqUpTo([id : PositionIds, amt : (-MaxAmt)..MaxAmt], MaxReports)

\* The balance entries of an ACCOUNT_UPDATE event ("B") or the "assets" of an
\* account response: per reported asset its wallet and available balance.
BalanceReports ==
    UNION {[S -> {b \in [wallet : 0..MaxBal, avail : 0..MaxBal] : b.avail <= b.wallet}] :
              S \in SUBSET Assets}

\* The "positions" of an account response.
MarginReports ==
    SeqUpTo([amt : 0..MaxAmt, margin : 0..MaxMargin, asset : Assets], MaxMarginReports)

\* f with key k set to v, the key added when absent (dict item assignment).
SetItem(f, k, v) == [x \in DOMAIN f \cup {k} |-> IF x = k THEN v ELSE f[x]]
\* f without key k (del).
DelItem(f, k) == [x \in DOMAIN f \ {k} |-> f[x]]

\* The balance loops: both maps take the reported values of every reported asset.
StoreBalances(bal, B, field) ==
    [a \in DOMAIN bal \cup DOMAIN B |-> IF a \in DOMAIN B THEN B[a][field] ELSE bal[a]]

\* One pass of the position loop of _process_account_update over the entries
\* P[i..]: create or update the entry, then delete it when the amount is zero.
RECURSIVE PushPositions(_, _, _)
PushPositions(pos, P, i) ==
    IF i > Len(P) THEN pos
    ELSE LET stored == SetItem(pos, P[i].id, P[i].amt)
         IN  PushPositions(IF P[i].amt = 0 THEN DelItem(stored, P[i].id) ELSE stored,
                           P, i + 1)

\* One pass of the position loop of _update_positions: create or update the entry.
RECURSIVE PollPositions(_, _, _)
PollPositions(pos, P, i) ==
    IF i > Len(P) THEN pos
    ELSE PollPositions(SetItem(pos, P[i].id, P[i].amt), P, i + 1)

\* The most recent reported amount per position id after the reports P.
RECURSIVE Reported(_, _, _)
Reported(rep, P, i) ==
    IF i > Len(P) THEN rep
    ELSE Reported(SetItem(rep, P[i].id, P[i].amt), P, i + 1)

\* User-stream ACCOUNT_UPDATE: balances from B, positions from P.
ProcessAccountUpdate(B, P) ==
    /\ account_balances' = StoreBalances(account_balances, B, "wallet")
    /\ account_available_balances' = StoreBalances(account_available_balances, B, "avail")
    /\ account_positions' = PushPositions(account_positions, P, 1)
    /\ lastReport' = Reported(lastReport, P, 1)
    /\ lastRefresh' = IF DOMAIN B = {} THEN lastRefresh ELSE [lastRefresh EXCEPT !.by = "push"]
    /\ UNCHANGED trading_required
    /\ UNCHANGED accountFrame

\* Position poll: nothing without trading_required or when the request fails.
UpdatePositions(ok, P) ==
    /\ IF trading_required /\ ok
       THEN /\ account_positions' = PollPositions(account_positions, P, 1)
            /\ lastReport' = Reported(lastReport, P, 1)
       ELSE UNCHANGED <<account_positions, lastReport>>
    /\ UNCHANGED <<trading_required, account_balances, account_available_balances,
                   lastRefresh>>
    /\ UNCHANGED accountFrame

\* The margin loop of _update_balances over the entries M[i..]: an entry whose
\* positionAmt is nonzero is skipped, any other has its initialMargin subtracted
\* from the available balance of its margin asset, if that asset is held.
RECURSIVE SubtractMargins(_, _, _)
SubtractMargins(avail, M, i) ==
    IF i > Len(M) THEN avail
    ELSE IF M[i].amt # 0 THEN SubtractMargins(avail, M, i + 1)
    ELSE IF M[i].asset \in DOMAIN avail
         THEN SubtractMargins([avail EXCEPT ![M[i].asset] = @ - M[i].margin], M, i + 1)
         ELSE SubtractMargins(avail, M, i + 1)

\* The initial margin reserved in asset a by the open positions of M[i..].
RECURSIVE OpenMargin(_, _, _)
OpenMargin(M, a, i) ==
    IF i > Len(M) THEN 0
    ELSE (IF M[i].amt # 0 /\ M[i].asset = a THEN M[i].margin ELSE 0) + OpenMargin(M, a, i + 1)

\* Balance refresh: nothing without trading_required or when the request fails.
\* (An asset the response leaves out keeps its earlier available balance, which the
\* margin loop lowers again: the model stops following it below -MaxBal.)
UpdateBalances(ok, B, M) ==
    /\ IF trading_required /\ ok
       THEN /\ account_balances' = StoreBalances(account_balances, B, "wallet")
            /\ account_available_balances' =
                   SubtractMargins(StoreBalances(account_available_balances, B, "avail"), M, 1)
            /\ \A a \in DOMAIN account_available_balances' :
                   account_available_balances'[a] >= -MaxBal
            /\ lastRefresh' = [by |-> "refresh", assets |-> DOMAIN B,
                               reserved |-> [a \in Assets |-> OpenMargin(M, a, 1)]]
       ELSE UNCHANGED <<account_balances, account_available_balances, lastRefresh>>
    /\ UNCHANGED <<trading_required, account_positions, lastReport>>
    /\ UNCHANGED accountFrame

InitAccount ==
    /\ trading_required \in BOOLEAN
    /\ account_positions = <<>>
    /\ account_balances = <<>>
    /\ account_available_balances = <<>>
    /\ lastReport = <<>>
    /\ lastRefresh = [by |-> "none", assets |-> {}, reserved |-> [a \in Assets |-> 0]]

\* Account events and position polls (the events carry no balance entries).
NextPositions ==
    \/ \E P \in PositionReports : ProcessAccountUpdate(<<>>, P)
    \/ \E ok \in BOOLEAN, P \in PositionReports : UpdatePositions(ok, P)

\* Account events and balance refreshes (the events carry no position entries).
NextBalances ==
    \/ \E B \in BalanceReports : ProcessAccountUpdate(B, <<>>)
    \/ \E ok \in BOOLEAN, B \in BalanceReports, M \in MarginReports : UpdateBalances(ok, B, M)

\* ---------------------------------------------------------------- Part 3
\* for retry in range(3)
MaxAttempts == 3
\* if retry < 2: sleep and continue, else raise
LastRetry == 2
\* response_data.get("code") == -1021
TimeSyncCode == -1021

Paths == {"order"}
\* limit_id argument: "" stands for None
LimitIds == {"", "ORDER_LIMIT"}

\* limit_id = limit_id or path
ResolvedLimitId(args) == IF args.limit_id = "" THEN args.path ELSE args.limit_id

\* What one HTTP call can give: execute_request raising (timeout, connection
\* error), a body whose json() raises ContentTypeError, or a parsed body with
\* its HTTP status and its "code" field.
Responses ==
    {[kind |-> "exception", status |-> 0, code |-> 0],
     [kind |-> "content_type_error", status |-> 200, code |-> 0],
     [kind |-> "content_type_error", status |-> 500, code |-> 0]}
    \cup [kind : {"json"}, status : {200, 400}, code : {0, TimeSyncCode, -2000}]

NoResponse == [kind |-> "none", status |-> 0, code |-> 0]

Event(ev, arg) == [ev |-> ev, slot |-> retry, arg |-> arg]

\* Variant: the limiter is acquired on the first attempt only.
AcquiresFirstAttemptOnly(args, slot) == args.throttler /\ slot = 0

\* if throttler: await throttler.execute_task(limit_id=limit_id)
Acquires(args, slot) == args.throttler

\* Variant: no `except ContentTypeError` clause, a parse failure is retried.
OutcomeParseRetried(r, args) ==
    IF r.kind \in {"exception", "content_type_error"} THEN "exception"
    ELSE IF r.status # 200
         THEN IF r.code = TimeSyncCode /\ args.synchronizer THEN "resync" ELSE "exception"
    ELSE "return"

\* The branch of the try body and its except clauses a response takes.
Outcome(r, args) ==
    IF r.kind = "exception" THEN "exception"
    ELSE IF r.kind = "content_type_error" THEN "raise_parse"
    ELSE IF r.status # 200
         THEN IF r.code = TimeSyncCode /\ args.synchronizer
              THEN "resync"
              ELSE "exception"   \* the IOError raised in the try body is caught below
    ELSE "return"

\* Variant: the retry test is off by one (retry < 3).
IsLastAttemptOffByOne(slot) == ~(slot < LastRetry + 1)

\* except Exception: retry < 2 sleeps and continues, otherwise raises.
IsLastAttempt(slot) == ~(slot < LastRetry)

\* A call of api_request starts.
ApiRequest(args) ==
    /\ apiPc \in {"idle", "done"}
    /\ apiPc' = "attempt"
    /\ apiArgs' = args
    /\ retry' = 0
    /\ response' = NoResponse
    /\ trace' = <<>>
    /\ result' = "none"
    /\ UNCHANGED apiFrame

\* The loop is exhausted: the function ends without a return statement.
LoopExit ==
    /\ apiPc = "attempt"
    /\ retry >= MaxAttempts
    /\ apiPc' = "done"
    /\ result' = "returned_none"
    /\ UNCHANGED <<apiArgs, retry, response, trace>>
    /\ UNCHANGED apiFrame

\* The handler `except Exception` of the attempt in the current slot.
OnException(events) ==
    IF IsLastAttempt(retry)
    THEN /\ apiPc' = "done"
         /\ result' = "raised_exec"
         /\ trace' = events
         /\ UNCHANGED retry
    ELSE /\ apiPc' = "attempt"
         /\ result' = result
         /\ trace' = Append(events, Event("sleep", ""))
         /\ retry' = retry + 1

\* Loop head of one attempt: get the REST assistant (which may raise), resolve the
\* URL and acquire the rate limiter if one was given.
BeginAttempt(assistant_ok) ==
    /\ apiPc = "attempt"
    /\ retry < MaxAttempts
    /\ IF assistant_ok
       THEN /\ apiPc' = "send"
            /\ trace' = IF Acquires(apiArgs, retry)
                         THEN Append(trace, Event("acquire", ResolvedLimitId(apiArgs)))
                         ELSE trace
            /\ UNCHANGED <<retry, result>>
       ELSE OnException(Append(trace, Event("resp", "exception")))
    /\ UNCHANGED <<apiArgs, response>>
    /\ UNCHANGED apiFrame

\* rest_assistant.execute_request: the HTTP request is issued.
ExecuteRequest(r) ==
    /\ apiPc = "send"
    /\ apiPc' = "recv"
    /\ response' = r
    /\ trace' = Append(trace, Event("http", ""))
    /\ UNCHANGED <<apiArgs, retry, result>>
    /\ UNCHANGED apiFrame

\* The rest of the try body and the except clauses. sync_ok: sync_time() returns.
HandleResponse(sync_ok) ==
    /\ apiPc = "recv"
    /\ response' = NoResponse
    /\ LET out == Outcome(response, apiArgs)
           seen == Append(trace, Event("resp",
                       IF response.kind = "json"
                       THEN IF response.status = 200 THEN "ok"
                            ELSE IF response.code = TimeSyncCode THEN "time_sync" ELSE "error"
                       ELSE response.kind))
       IN  CASE out = "return" ->
                  /\ apiPc' = "done" /\ result' = "returned" /\ trace' = seen
                  /\ UNCHANGED retry
             [] out = "raise_parse" ->
                  /\ apiPc' = "done" /\ result' = "raised_parse" /\ trace' = seen
                  /\ UNCHANGED retry
             [] out = "resync" ->
                  IF sync_ok
                  THEN /\ apiPc' = "attempt" /\ retry' = retry + 1
                       /\ trace' = Append(seen, Event("sync", ""))
                       /\ UNCHANGED result
                  ELSE OnException(Append(seen, Event("sync", "")))
             [] out = "exception" -> OnException(seen)
    /\ UNCHANGED apiArgs
    /\ UNCHANGED apiFrame

InitApi ==
    /\ apiPc = "idle"
    /\ apiArgs = [throttler |-> FALSE, synchronizer |-> FALSE, limit_id |-> "", path |-> "order"]
    /\ retry = 0
    /\ response = NoResponse
    /\ trace = <<>>
    /\ result = "none"

NextApi ==
    \/ \E args \in [throttler : BOOLEAN, synchronizer : BOOLEAN,
                     limit_id : LimitIds, path : Paths] : ApiRequest(args)
    \/ \E ok \in BOOLEAN : BeginAttempt(ok)
    \/ \E r \in Responses : ExecuteRequest(r)
    \/ \E ok \in BOOLEAN : HandleResponse(ok)
    \/ LoopExit

\* ---------------------------------------------------------------- Part 4
\* Client order ids of the cancellation model, numbered in the order they are
\* issued (ids come from an increasing nonce), and the trading pair of each.
CancelOrders == {1, 2, 3}
PairOf == [o \in CancelOrders |-> IF o = 3 THEN "ETH-USDT" ELSE "BTC-USDT"]

\* What the venue answers to a POST cancel: a non-empty body, an empty body,
\* an error whose text holds "Order does not exist", or any other error.
CancelReplies == {"ok", "empty", "not_exist", "error"}

InSeq(o, seq) == \E i \in 1..Len(seq) : seq[i] = o
Elems(seq) == {seq[i] : i \in 1..Len(seq)}

\* The tracker drops an order from its active set when told it was cancelled.
ProcessOrderCanceled(active, S) == SelectSeq(active, LAMBDA o : o \notin S)

\* orders_by_trading_pair: pairs in order of first appearance, each with its
\* orders in tracker order (defaultdict(list) filled from tracked_orders.values()).
RECURSIVE GroupByPair(_, _)
GroupByPair(orders, seen) ==
    IF orders = <<>> THEN <<>>
    ELSE LET p == PairOf[Head(orders)] IN
         IF p \in seen
         THEN GroupByPair(Tail(orders), seen)
         ELSE <<[trading_pair |-> p,
                 orders |-> SelectSeq(orders, LAMBDA o : PairOf[o] = p)]>>
              \o GroupByPair(Tail(orders), seen \cup {p})

\* _cancel_order: an order unknown to the tracker is signalled not-found and
\* ValueError is raised before any request; otherwise one POST cancel is sent.
\* A truthy body signals cancelled and returns; an empty body or an error ends
\* in `raise e`, after a not-found signal when the text names a missing order.
CancelOrder(o, reply) ==
    IF ~InSeq(o, active_orders)
    THEN [request |-> FALSE, signal |-> "not_found", raised |-> TRUE]
    ELSE CASE reply = "ok" ->
                [request |-> TRUE, signal |-> "canceled", raised |-> FALSE]
           [] reply = "not_exist" ->
                [request |-> TRUE, signal |-> "not_found", raised |-> TRUE]
           [] OTHER ->
                [request |-> TRUE, signal |-> "none", raised |-> TRUE]

FallbackAlways(ok, orders) == orders

\* The orders cancel_all goes on to cancel one by one after the batched call:
\* all of the pair's orders when the call raised, none when it returned.
Fallback(ok, orders) == IF ok THEN <<>> ELSE orders

DeadlineNever(t, d) == FALSE

\* `if time.time() > deadline`
DeadlinePassed(t, d) == t > d

\* The host starts tracking a newly placed order, whose id is later than
\* those of the orders it tracks.
StartTrackingActive(o) ==
    /\ \A i \in 1..Len(active_orders) : active_orders[i] < o
    /\ active_orders' = Append(active_orders, o)
    /\ UNCHANGED <<now, cancelPc, snapshot, deadline, groups, todo, requests,
                   cancellation_results, lastCancel>>
    /\ UNCHANGED cancelFrame

\* The tracker drops an order that reached a terminal state by another route
\* (a status update handled by the order handlers of Part 1).
StopTrackingActive(o) ==
    /\ InSeq(o, active_orders)
    /\ active_orders' = ProcessOrderCanceled(active_orders, {o})
    /\ UNCHANGED <<now, cancelPc, snapshot, deadline, groups, todo, requests,
                   cancellation_results, lastCancel>>
    /\ UNCHANGED cancelFrame

\* cancel(): _cancel_order, and on any error process_order_exception and re-raise.
Cancel(o, reply) ==
    /\ LET c == CancelOrder(o, reply) IN
       /\ c.request \/ reply = "ok"
       /\ lastCancel' = [id |-> o, reply |-> IF c.request THEN reply ELSE "none",
                         signal |-> c.signal, raised |-> c.raised]
       /\ active_orders' = IF c.signal = "canceled"
                           THEN ProcessOrderCanceled(active_orders, {o})
                           ELSE active_orders
    /\ UNCHANGED <<now, cancelPc, snapshot, deadline, groups, todo, requests,
                   cancellation_results>>
    /\ UNCHANGED cancelFrame

\* cancel_all up to its first await: the deadline, the snapshot of the active
\* orders and their grouping; an empty tracker returns [] at once.
CancelAll(timeout_seconds) ==
    /\ cancelPc \in {"idle", "done"}
    /\ deadline' = now + timeout_seconds
    /\ snapshot' = Elems(active_orders)
    /\ groups' = GroupByPair(active_orders, {})
    /\ cancelPc' = IF active_orders = <<>> THEN "done" ELSE "batch"
    /\ todo' = <<>>
    /\ requests' = <<>>
    /\ cancellation_results' = <<>>
    /\ UNCHANGED <<active_orders, now, lastCancel>>
    /\ UNCHANGED cancelFrame

\* One pair of the outer loop: the symbol lookup (which catches its own
\* errors) and the batched POST cancelAllOrders.  When the call returns every
\* order of the pair is signalled cancelled and recorded as a success.
BatchCancel(ok, elapsed) ==
    /\ cancelPc = "batch"
    /\ now + elapsed <= MaxTime
    /\ LET g == Head(groups) IN
       /\ requests' = Append(requests, [path |-> "cancelAllOrders",
                                        target |-> g.trading_pair,
                                        at |-> now, ok |-> ok])
       /\ todo' = Fallback(ok, g.orders)
       /\ active_orders' = IF ok
                           THEN ProcessOrderCanceled(active_orders, Elems(g.orders))
                           ELSE active_orders
       /\ cancellation_results' =
              IF ok
              THEN cancellation_results \o
                   [i \in 1..Len(g.orders) |->
                       [client_order_id |-> g.orders[i], success |-> TRUE]]
              ELSE cancellation_results
       /\ groups' = IF todo' = <<>> THEN Tail(groups) ELSE groups
       /\ cancelPc' = IF todo' # <<>> THEN "order"
                     ELSE IF Tail(groups) = <<>> THEN "done" ELSE "batch"
    /\ now' = now + elapsed
    /\ UNCHANGED <<snapshot, deadline, lastCancel>>
    /\ UNCHANGED cancelFrame

\* One order of the fallback loop: past the deadline it is recorded as failed
\* with no request; otherwise _cancel_order runs and its outcome is recorded.
FallbackCancel(reply, elapsed) ==
    /\ cancelPc = "order"
    /\ now + elapsed <= MaxTime
    /\ LET o == Head(todo)
           late == DeadlinePassed(now, deadline)
           c == CancelOrder(o, reply)
           sent == ~late /\ c.request
       IN
       /\ sent \/ (reply = "ok" /\ elapsed = 0)
       /\ requests' = IF sent
                      THEN Append(requests, [path |-> "cancel", target |-> o,
                                             at |-> now, ok |-> ~c.raised])
                      ELSE requests
       /\ cancellation_results' =
              Append(cancellation_results,
                     [client_order_id |-> o, success |-> ~late /\ ~c.raised])
       /\ active_orders' = IF ~late /\ c.signal = "canceled"
                           THEN ProcessOrderCanceled(active_orders, {o})
                           ELSE active_orders
       /\ todo' = Tail(todo)
       /\ groups' = IF Tail(todo) = <<>> THEN Tail(groups) ELSE groups
       /\ cancelPc' = IF Tail(todo) # <<>> THEN "order"
                     ELSE IF Tail(groups) = <<>> THEN "done" ELSE "batch"
    /\ now' = now + elapsed
    /\ UNCHANGED <<snapshot, deadline, lastCancel>>
    /\ UNCHANGED cancelFrame

InitCancel ==
    /\ active_orders = <<>>
    /\ now = 0
    /\ cancelPc = "idle"
    /\ snapshot = {}
    /\ deadline = 0
    /\ groups = <<>>
    /\ todo = <<>>
    /\ requests = <<>>
    /\ cancellation_results = <<>>
    /\ lastCancel = [id |-> 0, reply |-> "none", signal |-> "none", raised |-> FALSE]

\* Single cancels through cancel().
NextCancel ==
    \/ \E o \in CancelOrders : StartTrackingActive(o)
    \/ \E o \in CancelOrders, reply \in CancelReplies : Cancel(o, reply)

\* One caller of cancel_all, with orders coming and going meanwhile.
NextCancelAll ==
    \/ \E o \in CancelOrders : StartTrackingActive(o)
    \/ \E o \in CancelOrders : StopTrackingActive(o)
    \/ \E timeout_seconds \in 0..MaxTimeout : CancelAll(timeout_seconds)
    \/ \E ok \in BOOLEAN, elapsed \in 0..MaxElapsed : BatchCancel(ok, elapsed)
    \/ \E reply \in CancelReplies, elapsed \in 0..MaxElapsed :
          FallbackCancel(reply, elapsed)

\* ---------------------------------------------------------------- Part 5
Polling == "_status_polling_loop"
Loops == {Polling, "_order_tracker_loop", "listen_for_subscriptions", "_run"}

\* The four awaits of the try body of _status_polling_loop, in program order.
Updates == <<"order_status", "balances", "positions", "trading_rules">>

NextUpdateSkipsPositions(u) ==
    CASE u = "order_status" -> "balances"
      [] u = "balances" -> "trading_rules"
      [] OTHER -> "sleep"

\* Where the polling loop goes when an update returns: the next await of the
\* try body, and after the last one the sleep of the finally clause.
NextUpdate(u) ==
    CASE u = "order_status" -> "balances"
      [] u = "balances" -> "positions"
      [] u = "positions" -> "trading_rules"
      [] OTHER -> "sleep"

\* Which updates can raise into the loop: _update_order_status and
\* _update_positions catch every Exception themselves, _update_balances logs
\* and re-raises (it returns early without trading), _update_trading_rules
\* has no handler around its request.
CanRaise(u) == u = "trading_rules" \/ (u = "balances" /\ trading_required)

OnErrorEndsLoop(l) == "raised"

\* `except Exception` of each loop: the polling loop logs and falls into the
\* sleep of its finally clause, the spot tracker loop and the order-book
\* listener log and sleep 5 seconds, _run logs and loops at once.
OnError(l) ==
    CASE l = Polling -> "sleep"
      [] l = "_run" -> "body"
      [] OTHER -> "backoff"

\* A CancelledError raised at the await the loop is suspended at.  The polling
\* loop re-raises, which first runs the sleep of its finally clause (a
\* cancellation during a finally sleep leaves at once); the tracker loop and
\* the listener re-raise; _run logs and breaks, so it returns normally.
OnCancelled(l, pc) ==
    CASE l = Polling -> IF pc \in {"sleep", "unwind"} THEN "raised" ELSE "unwind"
      [] l = "_run" -> "returned"
      [] OTHER -> "raised"

\* One update of the polling cycle returns or raises.
PollingUpdate(ok) ==
    /\ loopPc[Polling] \in {Updates[i] : i \in 1..Len(Updates)}
    /\ ~ok => CanRaise(loopPc[Polling]) /\ errors < MaxErrors
    /\ cycle' = Append(cycle, loopPc[Polling])
    /\ loopPc' = [loopPc EXCEPT ![Polling] = IF ok THEN NextUpdate(@)
                                                ELSE OnError(Polling)]
    /\ errors' = IF ok THEN errors ELSE errors + 1
    /\ UNCHANGED delivered
    /\ UNCHANGED <<passPc, tracked_n, batches, handled>>
    /\ UNCHANGED <<trading_rules, exchange_info, prior_rules, refreshed, loopFrame>>

\* The sleep of the finally clause ends: the next cycle begins, or the pending
\* CancelledError leaves the loop.
PollingSleep ==
    /\ loopPc[Polling] \in {"sleep", "unwind"}
    /\ loopPc' = [loopPc EXCEPT ![Polling] = IF @ = "sleep" THEN Updates[1]
                                                ELSE "raised"]
    /\ cycle' = IF loopPc[Polling] = "sleep" THEN <<>> ELSE cycle
    /\ UNCHANGED <<errors, delivered>>
    /\ UNCHANGED <<passPc, tracked_n, batches, handled>>
    /\ UNCHANGED <<trading_rules, exchange_info, prior_rules, refreshed, loopFrame>>

\* One step of another loop: its body reaches the closing sleep or raises, or
\* a sleep ends and the next iteration begins.
LoopIteration(l, ok) ==
    /\ l # Polling
    /\ loopPc[l] \in {"body", "sleep", "backoff"}
    /\ ~ok => loopPc[l] = "body"
    /\ loopPc' = [loopPc EXCEPT ![l] = IF @ # "body" THEN "body"
                                       ELSE IF ok THEN "sleep" ELSE OnError(l)]
    /\ UNCHANGED <<cycle, errors, delivered>>
    /\ UNCHANGED <<passPc, tracked_n, batches, handled>>
    /\ UNCHANGED <<trading_rules, exchange_info, prior_rules, refreshed, loopFrame>>

\* The scheduler cancels the task of a loop that is still running.
DeliverCancel(l) ==
    /\ loopPc[l] \notin {"raised", "returned"}
    /\ delivered' = delivered \cup {l}
    /\ loopPc' = [loopPc EXCEPT ![l] = OnCancelled(l, @)]
    /\ UNCHANGED <<cycle, errors>>
    /\ UNCHANGED <<passPc, tracked_n, batches, handled>>
    /\ UNCHANGED <<trading_rules, exchange_info, prior_rules, refreshed, loopFrame>>

max_batch_size == 20

\* _split_orders_batches over the orders 1..n:
\* [orders[i:i + max_batch_size] for i in range(0, len(orders), max_batch_size)]
SplitOrdersBatches(n) ==
    [b \in 1..((n + max_batch_size - 1) \div max_batch_size) |->
        [k \in 1..(IF b * max_batch_size <= n
                   THEN max_batch_size
                   ELSE n - (b - 1) * max_batch_size) |->
            (b - 1) * max_batch_size + k]]

\* _update_order_status up to its first request: it returns at once without
\* trading or without tracked orders (a connector that does not trade tracks
\* none), and otherwise splits the orders, all of one trading pair, in batches.
UpdateOrderStatus(n) ==
    /\ passPc \in {"idle", "done"}
    /\ n > 0 => trading_required
    /\ tracked_n' = n
    /\ handled' = {}
    /\ batches' = SplitOrdersBatches(n)
    /\ passPc' = IF n = 0 THEN "done" ELSE "open_orders"
    /\ UNCHANGED <<loopPc, cycle, errors, delivered>>
    /\ UNCHANGED <<trading_rules, exchange_info, prior_rules, refreshed, loopFrame>>

\* The openOrders request of the current batch: an error is caught by the
\* handler around the batch, which logs it and goes on to the next batch.
FetchOpenOrders(ok) ==
    /\ passPc = "open_orders"
    /\ batches' = IF ok THEN batches ELSE Tail(batches)
    /\ passPc' = IF ok THEN "order"
                 ELSE IF Tail(batches) = <<>> THEN "done" ELSE "open_orders"
    /\ UNCHANGED <<tracked_n, handled>>
    /\ UNCHANGED <<loopPc, cycle, errors, delivered>>
    /\ UNCHANGED <<trading_rules, exchange_info, prior_rules, refreshed, loopFrame>>

\* The next client order id of the batch: reconciled with its open-orders
\* entry, or queried on its own, where "Order does not exist" becomes a
\* not-found signal.  Any other error (of the query or of the status handler)
\* is re-raised to the handler around the batch, which drops the rest of it.
HandleOrder(how) ==
    /\ passPc = "order"
    /\ LET b == Head(batches)
           rest == IF how = "error" THEN <<>> ELSE Tail(b)
       IN
       /\ handled' = handled \cup {Head(b)}
       /\ batches' = IF rest = <<>> THEN Tail(batches) ELSE <<rest>> \o Tail(batches)
       /\ passPc' = IF rest # <<>> THEN "order"
                    ELSE IF Tail(batches) = <<>> THEN "done" ELSE "open_orders"
    /\ UNCHANGED tracked_n
    /\ UNCHANGED <<loopPc, cycle, errors, delivered>>
    /\ UNCHANGED <<trading_rules, exchange_info, prior_rules, refreshed, loopFrame>>

\* The exchange-info documents: up to MaxSymbols symbol entries, each with the
\* keys it carries, its base asset (the quote is USDT) and its
\* lotSizeFilter.minQty text; one kind of entry lacks the status key.
ExchangeInfos ==
    SeqUpTo([keys : {{"symbol", "status", "baseAsset", "quoteAsset"}},
             baseAsset : {"BTC", "ETH"},
             minQty : {"1", "2", "x"}]
            \cup {[keys |-> {"symbol", "baseAsset", "quoteAsset"},
                   baseAsset |-> "BTC", minQty |-> "1"]}, MaxSymbols)

\* utils.is_exchange_information_valid
IsExchangeInformationValid(e) ==
    \A key \in {"symbol", "status", "baseAsset", "quoteAsset"} : key \in e.keys

\* utils.build_trading_rule: None for an invalid entry and for one whose
\* numbers float() cannot read (the function catches its own exceptions).
BuildTradingRule(e) ==
    LET float == [t \in {"1", "2"} |-> IF t = "1" THEN 1 ELSE 2] IN
    IF IsExchangeInformationValid(e) /\ e.minQty \in DOMAIN float
    THEN [none |-> FALSE, trading_pair |-> e.baseAsset \o "-USDT",
          min_order_size |-> float[e.minQty]]
    ELSE [none |-> TRUE, trading_pair |-> "", min_order_size |-> 0]

\* _format_trading_rules: the rules of the valid entries that build, in document order.
FormatTradingRules(symbols) ==
    LET kept == SelectSeq(symbols, LAMBDA e : /\ IsExchangeInformationValid(e)
                                              /\ ~BuildTradingRule(e).none)
    IN [i \in 1..Len(kept) |-> BuildTradingRule(kept[i])]

TableKept(table) == table

\* self._trading_rules.clear()
TableCleared(table) == <<>>

\* _update_trading_rules: a failed exchangeInfo request raises before the table
\* is touched; otherwise the table is cleared and each rule is stored under its
\* trading pair, a later rule of the same pair replacing an earlier one.
UpdateTradingRules(ok, symbols) ==
    /\ ~ok => symbols = <<>>
    /\ refreshed' = ok
    /\ exchange_info' = IF ok THEN symbols ELSE exchange_info
    /\ prior_rules' = DOMAIN trading_rules
    /\ trading_rules' =
          IF ~ok THEN trading_rules
          ELSE LET rules == FormatTradingRules(symbols)
                   base == TableCleared(trading_rules)
                   lastOf(p) == CHOOSE i \in 1..Len(rules) :
                                   /\ rules[i].trading_pair = p
                                   /\ \A j \in (i + 1)..Len(rules) :
                                        rules[j].trading_pair # p
                   fresh == {rules[i].trading_pair : i \in 1..Len(rules)}
               IN [p \in fresh \cup DOMAIN base |->
                      IF p \in fresh THEN rules[lastOf(p)].min_order_size ELSE base[p]]
    /\ UNCHANGED <<loopPc, cycle, errors, delivered, passPc, tracked_n, batches, handled>>
    /\ UNCHANGED loopFrame

InitLoops ==
    /\ loopPc = [l \in Loops |-> IF l = Polling THEN Updates[1] ELSE "body"]
    /\ cycle = <<>>
    /\ errors = 0
    /\ delivered = {}
    /\ passPc = "idle"
    /\ tracked_n = 0
    /\ batches = <<>>
    /\ handled = {}
    /\ trading_rules = <<>>
    /\ exchange_info = <<>>
    /\ prior_rules = {}
    /\ refreshed = FALSE

\* One trading-rule refresh after another.
NextRules ==
    \E ok \in BOOLEAN, symbols \in ExchangeInfos : UpdateTradingRules(ok, symbols)

\* One order-status pass after another.
NextPass ==
    \/ \E n \in 0..MaxTracked : UpdateOrderStatus(n)
    \/ \E ok \in BOOLEAN : FetchOpenOrders(ok)
    \/ \E how \in {"reconciled", "queried", "not_found", "error"} : HandleOrder(how)

NextLoops ==
    \/ \E ok \in BOOLEAN : PollingUpdate(ok)
    \/ PollingSleep
    \/ \E l \in Loops, ok \in BOOLEAN : LoopIteration(l, ok)
    \/ \E l \in Loops : DeliverCancel(l)

\* ---------------------------------------------------------------- Part 6
\* One market, one side.  The constructor is given the target amount (any of
\* 1..MaxTarget), the slice size OrderStepSize, the delay OrderDelayTime and
\* the wait CancelOrderWaitTime; amounts are whole multiples of the market's
\* quantum.  The clock ticks once per second from the start timestamp 0.

DueAlways(t, previous, first) == TRUE

\* `current_timestamp - self._previous_timestamp >= self._order_delay_time or self._first_order`
Due(t, previous, first) == t - previous >= OrderDelayTime \/ first

RemainingReturned(remaining, order) == remaining + order.quantity

\* The remaining quantity once an order has been cancelled or has expired:
\* did_cancel_order only forgets the order's cancel time and did_expire_order
\* only logs (update_remaining_after_removing_order has no caller).
RemainingAfterRemoval(remaining, order) == remaining

NoTick == [op |-> "none", placed |-> FALSE, idle |-> FALSE, elapsed |-> 0,
           first |-> FALSE, ready |-> FALSE, balance |-> FALSE,
           before |-> 0, amount |-> 0, quantity |-> 0, filled |-> 0]

\* The constructor and start(clock, 0).
ZbitTwapTradeStrategy(target) ==
    /\ target_asset_amount = 0
    /\ target_asset_amount' = target
    /\ quantity_remaining' = target
    /\ first_order' = TRUE
    /\ previous_timestamp' = 0
    /\ UNCHANGED <<current_timestamp, all_markets_ready, active_limit_orders,
                   time_to_cancel, filled_total, twapLast>>
    /\ UNCHANGED twapFrame

\* tick -> process_tick -> process_market, with place_orders_for_market: a
\* strategy whose markets are not ready returns; with no open order, quantity
\* left and the slice due it notes the time and places a slice if the balance
\* covers it; with an open order past its cancel time it asks for its cancel.
TwapTick(ready, enough_balance) ==
    /\ target_asset_amount > 0
    /\ current_timestamp < MaxClock
    /\ all_markets_ready => ready
    /\ LET t == current_timestamp + 1
           idle == Len(active_limit_orders) = 0
           attempt == /\ ready /\ idle /\ quantity_remaining > 0
                      /\ Due(t, previous_timestamp, first_order)
           placed == attempt /\ enough_balance
           timeout == ready /\ ~idle /\ t >= time_to_cancel
       IN
       /\ ~attempt => enough_balance
       /\ current_timestamp' = t
       /\ all_markets_ready' = ready
       /\ first_order' = (first_order /\ ~attempt)
       /\ previous_timestamp' = IF attempt THEN t ELSE previous_timestamp
       /\ active_limit_orders' =
              IF placed
              THEN <<[quantity |-> OrderStepSize, filled |-> 0, cancelling |-> FALSE]>>
              ELSE IF timeout
              THEN <<[active_limit_orders[1] EXCEPT !.cancelling = TRUE]>>
              ELSE active_limit_orders
       /\ time_to_cancel' = IF placed THEN t + CancelOrderWaitTime ELSE time_to_cancel
       /\ twapLast' = [NoTick EXCEPT !.op = "tick", !.placed = placed, !.idle = idle,
                                     !.elapsed = t - previous_timestamp,
                                     !.first = first_order, !.ready = ready,
                                     !.balance = enough_balance,
                                     !.before = quantity_remaining]
    /\ UNCHANGED <<target_asset_amount, quantity_remaining, filled_total>>
    /\ UNCHANGED twapFrame

\* did_fill_order for a fill of the open order; a fully filled order leaves
\* the open orders.
DidFillOrder(amount) ==
    /\ Len(active_limit_orders) = 1
    /\ LET order == active_limit_orders[1] IN
       /\ amount <= order.quantity - order.filled
       /\ quantity_remaining' = quantity_remaining - amount
       /\ filled_total' = filled_total + amount
       /\ active_limit_orders' =
              IF order.filled + amount = order.quantity THEN <<>>
              ELSE <<[order EXCEPT !.filled = @ + amount]>>
       /\ twapLast' = [NoTick EXCEPT !.op = "fill", !.before = quantity_remaining,
                                     !.amount = amount, !.quantity = order.quantity,
                                     !.filled = order.filled]
    /\ UNCHANGED <<target_asset_amount, first_order, previous_timestamp,
                   current_timestamp, all_markets_ready, time_to_cancel>>
    /\ UNCHANGED twapFrame

\* The open order leaves the market unfilled or partly filled: did_cancel_order
\* after a cancel the strategy asked for, did_expire_order at the venue's will.
DidRemoveOrder(event) ==
    /\ Len(active_limit_orders) = 1
    /\ event = "cancel" => active_limit_orders[1].cancelling
    /\ LET order == active_limit_orders[1] IN
       /\ quantity_remaining' = RemainingAfterRemoval(quantity_remaining, order)
       /\ twapLast' = [NoTick EXCEPT !.op = event, !.before = quantity_remaining,
                                     !.quantity = order.quantity,
                                     !.filled = order.filled]
    /\ active_limit_orders' = <<>>
    /\ time_to_cancel' = IF event = "cancel" THEN 0 ELSE time_to_cancel
    /\ UNCHANGED <<target_asset_amount, first_order, previous_timestamp,
                   current_timestamp, all_markets_ready, filled_total>>
    /\ UNCHANGED twapFrame

InitTwap ==
    /\ target_asset_amount = 0
    /\ quantity_remaining = 0
    /\ first_order = TRUE
    /\ previous_timestamp = 0
    /\ current_timestamp = 0
    /\ all_markets_ready = FALSE
    /\ active_limit_orders = <<>>
    /\ time_to_cancel = 0
    /\ filled_total = 0
    /\ twapLast = NoTick

NextTwap ==
    \/ \E target \in 1..MaxTarget : ZbitTwapTradeStrategy(target)
    \/ \E ready, enough_balance \in BOOLEAN : TwapTick(ready, enough_balance)
    \/ \E amount \in 1..OrderStepSize : DidFillOrder(amount)
    \/ \E event \in {"cancel", "expire"} : DidRemoveOrder(event)

\* ---------------------------------------------------------------- Part 7
\* One proposal of the AMM-arbitrage strategy.  Order ids are issued by the
\* connector; here the n-th order placed has id n.  The two sides of the
\* proposal are ArbProposalSide objects of the host: set_completed() sets the
\* side's completed_event, set_failed() marks it failed and sets the event too.
ArbSides == {"first", "second"}

\* `if first_side.is_failed: continue` after completed_event.wait() returned.
AbandonNever(failed) == FALSE

Abandon(failed) == failed

\* `if self._retry_count[order_id] < self._max_retries` of set_order_failed.
MayRetryAtLimit(count, limit) == count <= limit

MayRetry(count, limit) == count < limit

\* place_arb_order followed by `self._order_id_side_map[order_id] = side`
\* (mapped = FALSE where the code places without reaching that assignment).
PlaceArbOrder(orders, side, by) ==
    Append(orders, [side |-> side, by |-> by,
                    first_completed |-> by = "execute" /\ sides["first"].completed,
                    first_failed |-> by = "execute" /\ sides["first"].failed])

\* The proposal's first side is on market 1 and its second side on market 2;
\* one side buys and the other sells.
IsBuy(side) == (side = "first") = first_is_buy

\* What get_quote_price of the retry may give, in quote units.
RetryQuotes == {100}

\* The quote with the buffer of the leg's own market applied, in hundredths.
RetryPriceOwnBuffer(is_buy, on_market_1, quote) ==
    quote * (IF is_buy THEN 100 + (IF on_market_1 THEN market_1_slippage_buffer
                                                 ELSE market_2_slippage_buffer)
                       ELSE 100 - (IF on_market_1 THEN market_1_slippage_buffer
                                                 ELSE market_2_slippage_buffer))

\* The price of a retried order, in hundredths; the buffers are in per cent.
\* `price * (Decimal("1") + b1 if market_info == self._market_info_1 else b2)`
\* is read by Python as price * ((1 + b1) if ... else b2), and likewise with
\* 1 - b1 for a sell.
RetryPrice(is_buy, on_market_1, quote) ==
    quote * (IF on_market_1
             THEN (IF is_buy THEN 100 + market_1_slippage_buffer
                             ELSE 100 - market_1_slippage_buffer)
             ELSE market_2_slippage_buffer)

MapOrder(map, id, side) == [i \in DOMAIN map \cup {id} |-> IF i = id THEN side ELSE map[i]]

\* init_params(..., concurrent_orders_submission, max_retries, ...)
InitParams(concurrent, retries) ==
    /\ arbPc = "new"
    /\ arbPc' = "idle"
    /\ concurrent_orders_submission' = concurrent
    /\ max_retries' = retries
    /\ UNCHANGED <<arb_orders, order_id_side_map, sides, retry_count, retry_tasks,
                   first_side_filled, first_is_buy>>
    /\ UNCHANGED arbFrame

\* execute_arb_proposals on a list of one proposal, up to its first suspension:
\* in concurrent mode both legs are placed and then both mapped; in sequential
\* mode the first leg is placed and mapped and the task waits for its event.
\* ok1, ok2: whether place_arb_order returns for the first / second leg.
\* first_buys: the direction of the proposal's first side.
ExecuteArbProposals(first_buys, ok1, ok2) ==
    /\ arbPc = "idle"
    /\ Len(arb_orders) + 2 <= MaxArbOrders
    /\ IF concurrent_orders_submission
       THEN /\ arbPc' = "done"
            /\ arb_orders' =
                 IF ~ok1 THEN arb_orders
                 ELSE IF ~ok2 THEN PlaceArbOrder(arb_orders, "first", "execute")
                 ELSE PlaceArbOrder(PlaceArbOrder(arb_orders, "first", "execute"),
                                    "second", "execute")
            /\ order_id_side_map' =
                 IF ok1 /\ ok2
                 THEN MapOrder(MapOrder(order_id_side_map, Len(arb_orders) + 1, "first"),
                               Len(arb_orders) + 2, "second")
                 ELSE order_id_side_map
       ELSE /\ ok2   \* the second leg is not reached before the suspension
            /\ arbPc' = IF ok1 THEN "waiting" ELSE "done"
            /\ arb_orders' =
                 IF ok1 THEN PlaceArbOrder(arb_orders, "first", "execute") ELSE arb_orders
            /\ order_id_side_map' =
                 IF ok1 THEN MapOrder(order_id_side_map, Len(arb_orders) + 1, "first")
                 ELSE order_id_side_map
    /\ first_is_buy' = first_buys
    /\ UNCHANGED <<concurrent_orders_submission, max_retries, sides, retry_count,
                   retry_tasks, first_side_filled>>
    /\ UNCHANGED arbFrame

\* execute_arb_proposals in sequential mode, from the return of
\* `await first_side.completed_event.wait()` to the end of the iteration.
ResumeExecute(ok2) ==
    /\ arbPc = "waiting"
    /\ sides["first"].completed
    /\ arbPc' = "done"
    /\ IF Abandon(sides["first"].failed) \/ ~ok2
       THEN UNCHANGED <<arb_orders, order_id_side_map>>
       ELSE /\ Len(arb_orders) < MaxArbOrders
            /\ arb_orders' = PlaceArbOrder(arb_orders, "second", "execute")
            /\ order_id_side_map' = MapOrder(order_id_side_map, Len(arb_orders) + 1, "second")
    /\ UNCHANGED <<concurrent_orders_submission, max_retries, sides, retry_count,
                   retry_tasks, first_side_filled, first_is_buy>>
    /\ UNCHANGED arbFrame

\* did_complete_buy_order / did_complete_sell_order -> set_order_completed
SetOrderCompleted(order_id) ==
    /\ arbPc \in {"waiting", "done"}
    /\ order_id \in DOMAIN order_id_side_map
    /\ sides' = [sides EXCEPT ![order_id_side_map[order_id]].completed = TRUE]
    /\ first_side_filled' = (first_side_filled \/ order_id_side_map[order_id] = "first")
    /\ UNCHANGED <<arbPc, concurrent_orders_submission, max_retries, arb_orders,
                   order_id_side_map, retry_count, retry_tasks, first_is_buy>>
    /\ UNCHANGED arbFrame

\* did_fail_order -> set_order_failed
SetOrderFailed(order_id) ==
    /\ arbPc \in {"waiting", "done"}
    /\ order_id \in DOMAIN order_id_side_map
    /\ LET side == order_id_side_map[order_id]
           count == IF order_id \in DOMAIN retry_count THEN retry_count[order_id] ELSE 0
       IN  /\ sides' = [sides EXCEPT ![side] = [completed |-> TRUE, failed |-> TRUE]]
           /\ IF max_retries > 0
              THEN IF MayRetry(count, max_retries)
                   THEN /\ retry_count' = MapOrder(retry_count, order_id, count + 1)
                        /\ retry_tasks' =
                             Append(retry_tasks,
                                    [side |-> side, origin |-> order_id, state |-> "sleeping",
                                     quote |-> 0, price |-> 0])
                   ELSE /\ retry_count' = MapOrder(retry_count, order_id, count)
                        /\ retry_tasks' = retry_tasks
              ELSE UNCHANGED <<retry_count, retry_tasks>>
    /\ UNCHANGED <<arbPc, concurrent_orders_submission, max_retries, arb_orders,
                   order_id_side_map, first_side_filled, first_is_buy>>
    /\ UNCHANGED arbFrame

\* retry_order(side) once its sleep of retry_interval is over: the quote is
\* fetched again and the order placed again under a new order id.  All tasks
\* sleep for the same interval, so they wake in the order they were scheduled.
\* ok: whether get_quote_price and place_arb_order both return; quote: the
\* price get_quote_price gives.  The task keeps the quote and the price of the
\* order it placed.
RetryOrder(t, ok, quote) ==
    /\ t \in DOMAIN retry_tasks
    /\ retry_tasks[t].state = "sleeping"
    /\ \A u \in 1..(t - 1) : retry_tasks[u].state = "done"
    /\ retry_tasks' =
          IF ok
          THEN [retry_tasks EXCEPT ![t].state = "done", ![t].quote = quote,
                                   ![t].price = RetryPrice(IsBuy(retry_tasks[t].side),
                                                           retry_tasks[t].side = "first", quote)]
          ELSE [retry_tasks EXCEPT ![t].state = "done"]
    /\ IF ok
       THEN /\ Len(arb_orders) < MaxArbOrders
            /\ arb_orders' = PlaceArbOrder(arb_orders, retry_tasks[t].side, "retry")
            /\ order_id_side_map' =
                 MapOrder(order_id_side_map, Len(arb_orders) + 1, retry_tasks[t].side)
       ELSE UNCHANGED <<arb_orders, order_id_side_map>>
    /\ UNCHANGED <<arbPc, concurrent_orders_submission, max_retries, sides, retry_count,
                   first_side_filled, first_is_buy>>
    /\ UNCHANGED arbFrame

InitArb ==
    /\ arbPc = "new"
    /\ concurrent_orders_submission = TRUE
    /\ max_retries = 3
    /\ arb_orders = <<>>
    /\ order_id_side_map = <<>>
    /\ sides = [s \in ArbSides |-> [completed |-> FALSE, failed |-> FALSE]]
    /\ retry_count = <<>>
    /\ retry_tasks = <<>>
    /\ first_side_filled = FALSE
    /\ first_is_buy = TRUE

NextArb ==
    \/ \E concurrent \in BOOLEAN, retries \in 0..MaxRetries : InitParams(concurrent, retries)
    \/ \E first_buys \in {TRUE}, ok1 \in BOOLEAN, ok2 \in BOOLEAN :
           ExecuteArbProposals(first_buys, ok1, ok2)
    \/ \E ok2 \in BOOLEAN : ResumeExecute(ok2)
    \/ \E order_id \in 1..MaxArbOrders : SetOrderCompleted(order_id)
    \/ \E order_id \in 1..MaxArbOrders : SetOrderFailed(order_id)
    \/ \E t \in 1..(MaxArbOrders * MaxRetries + MaxArbOrders), ok \in BOOLEAN,
          quote \in RetryQuotes :
           RetryOrder(t, ok, quote)

\* The placing, failing and retrying of the legs of a proposal of either
\* direction, without the completions.
NextArbRetries ==
    \/ \E concurrent \in BOOLEAN, retries \in 0..MaxRetries : InitParams(concurrent, retries)
    \/ \E first_buys \in BOOLEAN, ok1 \in BOOLEAN, ok2 \in BOOLEAN :
           ExecuteArbProposals(first_buys, ok1, ok2)
    \/ \E order_id \in 1..MaxArbOrders : SetOrderFailed(order_id)
    \/ \E t \in 1..(MaxArbOrders * MaxRetries + MaxArbOrders), ok \in BOOLEAN,
          quote \in RetryQuotes :
           RetryOrder(t, ok, quote)

\* ---------------------------------------------------------------- Part 8
\* Decimal values are kept as exact fractions: a price is a numerator over a
\* denominator carried next to it.  risk_factor and order_amount have their
\* default 1; order_level_spread is 50 (percent), so level i is moved by i/2.
volatility_window == 50

Max(a, b) == IF a >= b THEN a ELSE b

Min(a, b) == IF a <= b THEN a ELSE b

\* `self._price_samples.append(...)` and `if len(...) > self._volatility_window: pop(0)`
AppendSampleDropNewest(samples, sample) ==
    IF Len(samples) + 1 > volatility_window THEN samples ELSE Append(samples, sample)

AppendSample(samples, sample) ==
    IF Len(samples) + 1 > volatility_window
    THEN Tail(Append(samples, sample))
    ELSE Append(samples, sample)

\* `max(self._min_spread * mid_price, min(self._max_spread * mid_price, spread))`
ClampSpreadFloorOnly(lo, hi, spread) == Max(lo, spread)

ClampSpread(lo, hi, spread) == Max(lo, Min(hi, spread))

\* update_parameters for mid_price > 0: the new optimal bid and ask.
\* mid: the mid price; vol: self._volatility in quarters; base, quote: the two
\* balances; remaining: max(1, time_horizon - timestamp % time_horizon).
UpdateParameters(mid, vol, base, quote, remaining) ==
    LET total == base * mid + quote                   \* total_balance_in_quote
        T == IF total = 0 THEN 1 ELSE total
        \* inventory_ratio = ratio2 / (2 * T), clamped to [-1, 1]
        ratio2 == IF total = 0 THEN 0
                  ELSE Max(Min(2 * base * mid - total, 2 * T), -(2 * T))
        D == 32 * T * remaining                       \* common denominator
        reservation == mid * D - mid * vol * ratio2 * 4 * remaining
        \* 2 * vol / kappa + (1 / remaining) * vol ** 2, kappa = 1
        spread == ClampSpread(min_spread * mid * 8 * T * remaining,
                              max_spread * mid * 8 * T * remaining,
                              vol * 16 * T * remaining + vol * vol * 2 * T)
        bid == 2 * reservation - spread               \* over 2 * D
        ask == 2 * reservation + spread
        avg == (bid + ask) \div 2
        min_half_spread == min_spread * mid * 8 * T * remaining
    IN  IF bid >= ask
        THEN [bid |-> avg - min_half_spread, ask |-> avg + min_half_spread, den |-> 2 * D]
        ELSE [bid |-> bid, ask |-> ask, den |-> 2 * D]

\* One ladder loop of create_new_orders: whether each level is placed, given
\* what each level requires and the balance read before the loop.
RECURSIVE PlaceLadderUnchecked(_, _)
PlaceLadderUnchecked(required, balance) ==
    IF required = <<>> THEN <<>>
    ELSE <<TRUE>> \o PlaceLadderUnchecked(Tail(required), balance - Head(required))

RECURSIVE PlaceLadder(_, _)
PlaceLadder(required, balance) ==
    IF required = <<>> THEN <<>>
    ELSE IF balance < Head(required)
         THEN <<FALSE>> \o PlaceLadder(Tail(required), balance)
         ELSE <<TRUE>> \o PlaceLadder(Tail(required), balance - Head(required))

\* required_quote of the buy at level i (0-based), over 3 * den:
\* order_amount / (1 + i/2) * optimal_bid * (1 - i/2)
RequiredQuote(opt, i) == (3 * opt.bid * (2 - i)) \div (2 + i)

\* sell_order_amount at level i, in twelfths: order_amount / (1 + i/2)
SellAmount(i) == 24 \div (2 + i)

\* __init__(market_info, ..., min_spread, max_spread, ..., order_levels, ...)
ZbitAvellanedaMarketMaking(min, max, levels) ==
    /\ avPc = "new"
    /\ avPc' = "running"
    /\ min_spread' = min
    /\ max_spread' = max
    /\ order_levels' = levels
    /\ UNCHANGED <<markets_ready, price_samples, samples_taken, volatility, optimal, avLast>>
    /\ UNCHANGED avFrame

\* tick(timestamp), given the record `in` of what it reads:
\* ready: whether every market reports ready; sample_due: timestamp -
\* _last_sampling_timestamp > _sampling_interval; refresh_due: timestamp >
\* _last_timestamp + _order_refresh_time; mid: get_mid_price() (0 without a
\* ticker); vol: what calculate_volatility returns; remaining: max(1,
\* time_horizon - timestamp % time_horizon); base, quote: the balances.
\* limit: the number of samples fed in this run.
\* The cancels that cancel_all_orders sends to the market are not recorded.
AvTick(in, limit) ==
    /\ avPc = "running"
    /\ markets_ready' = (markets_ready \/ in.ready)
    /\ IF ~markets_ready'
       THEN /\ UNCHANGED <<price_samples, samples_taken, volatility, optimal>>
            /\ avLast' = [updated |-> FALSE, placed |-> FALSE, mid |-> 0,
                          base |-> 0, quote |-> 0, buys |-> <<>>, sells |-> <<>>]
       ELSE LET sampled == in.sample_due /\ in.mid > 0
                updated == in.refresh_due /\ in.mid # 0
                opt == optimal'
                placed == in.refresh_due /\ opt.bid # 0 /\ opt.ask # 0
                levels == [i \in 1..order_levels |-> i - 1]
            IN  /\ sampled => samples_taken < limit
                /\ samples_taken' = IF sampled THEN samples_taken + 1 ELSE samples_taken
                /\ price_samples' =
                     IF sampled THEN AppendSample(price_samples, samples_taken + 1)
                     ELSE price_samples
                /\ volatility' =
                     IF sampled /\ Len(price_samples') > 1 THEN in.vol ELSE volatility
                /\ optimal' =
                     IF updated
                     THEN UpdateParameters(in.mid, volatility', in.base, in.quote,
                                           in.remaining)
                     ELSE optimal
                /\ avLast' =
                     [updated |-> updated, placed |-> placed,
                      mid |-> IF in.refresh_due THEN in.mid ELSE 0,
                      base |-> IF placed THEN in.base ELSE 0,
                      quote |-> IF placed THEN in.quote ELSE 0,
                      buys |-> IF placed
                               THEN PlaceLadder([i \in 1..order_levels |->
                                                    RequiredQuote(opt, levels[i])],
                                                3 * in.quote * opt.den)
                               ELSE <<>>,
                      sells |-> IF placed
                                THEN PlaceLadder([i \in 1..order_levels |->
                                                     SellAmount(levels[i])],
                                                 12 * in.base)
                                ELSE <<>>]
    /\ UNCHANGED <<avPc, min_spread, max_spread, order_levels>>
    /\ UNCHANGED avFrame

InitAvellaneda ==
    /\ avPc = "new"
    /\ min_spread = 0
    /\ max_spread = 0
    /\ order_levels = 1
    /\ markets_ready = FALSE
    /\ price_samples = <<>>
    /\ samples_taken = 0
    /\ volatility = 0
    /\ optimal = [bid |-> 0, ask |-> 0, den |-> 1]
    /\ avLast = [updated |-> FALSE, placed |-> FALSE, mid |-> 0, base |-> 0, quote |-> 0,
                 buys |-> <<>>, sells |-> <<>>]

\* The inputs of one tick; an input the tick does not read is held at a
\* fixed value.
TickInputs(Mids, Vols, Remainings, Bases, Quotes) ==
    LET Quiet == [ready : BOOLEAN, sample_due : {FALSE}, refresh_due : {FALSE},
                  mid : {0}, vol : {0}, remaining : {1}, base : {0}, quote : {0}]
        Sample == [ready : {TRUE}, sample_due : {TRUE}, refresh_due : {FALSE},
                   mid : Mids, vol : Vols, remaining : {1}, base : {0}, quote : {0}]
        Refresh == [ready : {TRUE}, sample_due : {FALSE}, refresh_due : {TRUE},
                    mid : Mids, vol : {0}, remaining : Remainings, base : Bases,
                    quote : Quotes]
        Both == [ready : {TRUE}, sample_due : {TRUE}, refresh_due : {TRUE},
                 mid : Mids, vol : Vols, remaining : Remainings, base : Bases,
                 quote : Quotes]
    IN  Quiet \cup Sample \cup Refresh \cup Both

\* A run of ticks that feeds the sample window.
NextAvWindow ==
    \/ \E min \in {0}, max \in {1}, levels \in {1} :
           ZbitAvellanedaMarketMaking(min, max, levels)
    \/ \E in \in TickInputs({0, 1}, {0, 1}, {1}, {1}, {1}) : AvTick(in, MaxSamples)

\* A run of ticks over configurations, prices, volatilities and balances.
NextAvellaneda ==
    \/ \E min \in {0, 1}, max \in {1, 2}, levels \in {1, 2} :
           ZbitAvellanedaMarketMaking(min, max, levels)
    \/ \E in \in TickInputs({0, 1, 2}, {0, 1}, {1, 3}, {0, 1}, {0, 1, 3}) :
           AvTick(in, MaxRefreshSamples)

\* ---------------------------------------------------------------- Part 9
\* Prices and amounts are exact fractions [n, d] with d > 0.  The script runs
\* with order_amount 2, slippage_buffer 1/4, a maker fee of 0,
\* min_profitability 0, order_refresh_tolerance_pct 1/2 and conversion rates 1.
Frac(n, d) == [n |-> n, d |-> d]

Less(p, q) == p.n * q.d < q.n * p.d

RECURSIVE SumSide(_, _)
SumSide(samples, side) ==
    IF samples = <<>> THEN 0 ELSE Head(samples)[side] + SumSide(Tail(samples), side)

\* _recalculate_price_proposal: the bid and ask handed to
\* _create_and_execute_proposal, from the window average.
FinalPrices(samples) ==
    LET len == Len(samples)
    IN  [bid |-> Frac(SumSide(samples, 1) * Min((4 - 1) * (4 - 0), 4 * (4 + 0)), 16 * len),
         ask |-> Frac(SumSide(samples, 2) * Max((4 + 1) * (4 + 0), 4 * (4 - 0)), 16 * len)]

\* _create_proposal: the bid and ask from the last sample and min_profitability.
LastSamplePrices(samples) ==
    [bid |-> Frac(samples[Len(samples)][1] * (4 - 0), 4),
     ask |-> Frac(samples[Len(samples)][2] * (4 + 0), 4)]

\* avg = sum(o.price for o in orders) / len(orders), for a list of one or more orders
AveragePrice(orders) ==
    LET RECURSIVE Sum(_)
        Sum(os) == IF os = <<>> THEN Frac(0, 1)
                   ELSE LET h == Head(os).price
                            r == Sum(Tail(os))
                        IN  Frac(h.n * r.d + r.n * h.d, h.d * r.d)
        total == Sum(orders)
    IN  Frac(total.n, total.d * Len(orders))

\* abs(avg - price) / avg < order_refresh_tolerance_pct (0 when avg is 0)
WithinTolerance(avg, price) ==
    LET diff == avg.n * price.d - price.n * avg.d
        abs == IF diff < 0 THEN -diff ELSE diff
    IN  avg.n = 0 \/ 2 * abs < avg.n * price.d

\* min(self._order_amount, balance): the size of an order.
OrderSizeUncapped(balance) == Frac(2, 1)

OrderSize(balance) == IF Less(balance, Frac(2, 1)) THEN balance ELSE Frac(2, 1)

\* _cancel_all_maker_orders, on the record st of the lists and of what the
\* tick did so far.
CancelAllMakerOrders(st) ==
    [st EXCEPT !.cancelled = @ + Len(st.bids) + Len(st.asks),
               !.bids = <<>>, !.asks = <<>>]

\* _create_and_execute_proposal(bid_price, ask_price) with the balances read.
CreateAndExecuteProposal(st, p, base, quote) ==
    IF ~Less(p.bid, p.ask) THEN st
    ELSE IF /\ st.bids # <<>> /\ st.asks # <<>>
            /\ WithinTolerance(AveragePrice(st.bids), p.bid)
            /\ WithinTolerance(AveragePrice(st.asks), p.ask)
    THEN st
    ELSE
        LET c == CancelAllMakerOrders(st)
            bid_amount == OrderSize(Frac(quote * p.bid.d, p.bid.n))
            ask_amount == OrderSize(Frac(base, 1))
            bid == [side |-> "bid", price |-> p.bid, amount |-> bid_amount,
                    balance |-> quote]
            ask == [side |-> "ask", price |-> p.ask, amount |-> ask_amount,
                    balance |-> base]
            place_bid == Less(Frac(min_order_amount, 1), bid_amount)
            place_ask == Less(Frac(min_order_amount, 1), ask_amount)
        IN  [c EXCEPT !.bids = IF place_bid THEN <<bid>> ELSE <<>>,
                      !.asks = IF place_ask THEN <<ask>> ELSE <<>>,
                      !.placed = @ \o (IF place_bid THEN <<bid>> ELSE <<>>)
                                   \o (IF place_ask THEN <<ask>> ELSE <<>>)]

\* __init__(..., active_order_canceling, min_order_amount, ...)
ZbitCrossExchangeMarketMaking(canceling, min_amount) ==
    /\ xemmPc = "new"
    /\ xemmPc' = "running"
    /\ active_order_canceling' = canceling
    /\ min_order_amount' = min_amount
    /\ UNCHANGED <<xemm_ready, suggested_price_samples, active_bids, active_asks, xemmLast,
                   closed_on_maker>>
    /\ UNCHANGED xemmFrame

\* tick(timestamp), given the record `in` of what it reads:
\* ready: whether both markets report ready; taker: the taker market's
\* <<bid, ask>>; refresh_due: timestamp - _last_order_refresh_time >
\* _order_refresh_time; base, quote: the maker market's available balances.
XemmTick(in) ==
    /\ xemmPc = "running"
    /\ xemmLast.ticks < MaxXemmTicks
    /\ xemm_ready' = (xemm_ready \/ in.ready)
    /\ IF ~xemm_ready'
       THEN /\ UNCHANGED <<suggested_price_samples, active_bids, active_asks,
                           closed_on_maker>>
            /\ xemmLast' = [ticks |-> xemmLast.ticks + 1, both_active |-> FALSE,
                            within |-> FALSE, cancelled |-> 0, placed |-> <<>>,
                            averaged_closed |-> FALSE]
       ELSE LET appended == Append(suggested_price_samples, in.taker)
                start == [bids |-> active_bids, asks |-> active_asks,
                          cancelled |-> 0, placed |-> <<>>]
            IN  /\ suggested_price_samples' =
                     IF Len(appended) > 10 THEN Tail(appended) ELSE appended
                /\ \E final \in {FinalPrices(suggested_price_samples')},
                      fresh \in {LastSamplePrices(suggested_price_samples')} :
                   \* _process_market_pair
                   \E first \in {CreateAndExecuteProposal(start, final, in.base, in.quote)} :
                   \* _check_and_cancel_active_orders
                   \E swept \in {IF active_order_canceling THEN CancelAllMakerOrders(first)
                                 ELSE first} :
                   \E second \in {IF swept.bids = <<>> /\ swept.asks = <<>>
                                  THEN CreateAndExecuteProposal(swept, fresh, in.base,
                                                                in.quote)
                                  ELSE swept} :
                   \* _create_proposal
                   \E third \in {CreateAndExecuteProposal(second, fresh, in.base, in.quote)} :
                   \E end \in {IF in.refresh_due THEN third ELSE first} :
                       /\ active_bids' = end.bids
                       /\ active_asks' = end.asks
                       /\ xemmLast' =
                            [ticks |-> xemmLast.ticks + 1,
                             both_active |-> active_bids # <<>> /\ active_asks # <<>>,
                             within |-> /\ active_bids # <<>> /\ active_asks # <<>>
                                        /\ WithinTolerance(AveragePrice(active_bids),
                                                           final.bid)
                                        /\ WithinTolerance(AveragePrice(active_asks),
                                                           final.ask),
                             cancelled |-> end.cancelled,
                             placed |-> end.placed,
                             averaged_closed |-> /\ Less(final.bid, final.ask)
                                                 /\ active_bids # <<>>
                                                 /\ active_asks # <<>>
                                                 /\ closed_on_maker # {}]
                       \* the lists were emptied, and perhaps filled with new orders
                       /\ closed_on_maker' =
                            IF end.cancelled > 0 THEN {} ELSE closed_on_maker
    /\ UNCHANGED <<xemmPc, active_order_canceling, min_order_amount>>
    /\ UNCHANGED xemmFrame

\* The maker market fills or cancels the order the script placed on `side`.
\* The script defines no did_fill_order, did_complete or did_cancel handler:
\* _active_bids and _active_asks change only where it appends after buy() and
\* sell() and where _cancel_all_maker_orders empties them.
MakerOrderClosed(side) ==
    /\ xemmPc = "running"
    /\ side \notin closed_on_maker
    /\ IF side = "bid" THEN active_bids # <<>> ELSE active_asks # <<>>
    /\ closed_on_maker' = closed_on_maker \cup {side}
    /\ UNCHANGED <<xemmPc, active_order_canceling, min_order_amount, xemm_ready,
                   suggested_price_samples, active_bids, active_asks, xemmLast>>
    /\ UNCHANGED xemmFrame

InitXemm ==
    /\ xemmPc = "new"
    /\ active_order_canceling = TRUE
    /\ min_order_amount = 0
    /\ xemm_ready = FALSE
    /\ suggested_price_samples = <<>>
    /\ active_bids = <<>>
    /\ active_asks = <<>>
    /\ xemmLast = [ticks |-> 0, both_active |-> FALSE, within |-> FALSE, cancelled |-> 0,
                   placed |-> <<>>, averaged_closed |-> FALSE]
    /\ closed_on_maker = {}

NextXemm ==
    \/ \E canceling \in BOOLEAN, min_amount \in {0, 1} :
           ZbitCrossExchangeMarketMaking(canceling, min_amount)
    \/ \E in \in [ready : BOOLEAN, taker : {<<8, 10>>, <<9, 10>>, <<20, 10>>},
                  refresh_due : BOOLEAN, base : {0, 1, 3}, quote : {0, 9, 40}] :
           XemmTick(in)

\* The strategy together with the maker market closing its orders.
NextXemmFills ==
    \/ \E canceling \in BOOLEAN, min_amount \in {0, 1} :
           ZbitCrossExchangeMarketMaking(canceling, min_amount)
    \/ \E in \in [ready : BOOLEAN, taker : {<<8, 10>>, <<9, 10>>, <<20, 10>>},
                  refresh_due : BOOLEAN, base : {0, 1, 3}, quote : {0, 9, 40}] :
           XemmTick(in)
    \/ \E side \in {"bid", "ask"} : MakerOrderClosed(side)

\* --------------------------------------------------------------- Part 10
\* ---- get_account_summary of the perpetual connector.
\* Decimal(str(account_info.get(key, "0"))): the field, 0 when it is missing.
\* The amounts are whole numbers, which the conversion keeps as they are.
GetField(account_info, key) ==
    IF key \in DOMAIN account_info THEN account_info[key] ELSE 0

HasMaintenanceNonZero(maintenance_margin) == maintenance_margin # 0

\* if summary["maintenance_margin"] > Decimal("0")
HasMaintenance(maintenance_margin) == maintenance_margin > 0

\* The margin level: the quotient as an exact fraction, or the sentinel 999.
MarginRatio(margin_balance, maintenance_margin) ==
    IF HasMaintenance(maintenance_margin)
    THEN Frac(margin_balance, maintenance_margin)
    ELSE Frac(999, 1)

\* The account replies tried.  The maintenance margins divide a power of ten,
\* so every quotient is a terminating decimal that Decimal division gives
\* exactly.
MarginBalances == {-100, 0, 1, 10, 100, 250, 499, 500, 501, 1000, 2500, 5000}
MaintMargins == {-50, -1, 0, 1, 2, 5, 10, 50, 100, 500}
AccountInfos ==
    {[totalMarginBalance |-> b, totalMaintMargin |-> m] :
        b \in MarginBalances, m \in MaintMargins}
    \cup {[totalMarginBalance |-> b] : b \in MarginBalances}
    \cup {[totalMaintMargin |-> m] : m \in MaintMargins}

\* get_account_summary: {} without trading_required; the error of a failed
\* account request is logged and raised again; otherwise the summary.  Of the
\* summary's fields the two the margin level is computed from are kept.
GetAccountSummary(ok, account_info) ==
    /\ account_summary' =
          IF ~trading_required THEN [returned |-> "empty"]
          ELSE IF ~ok THEN [returned |-> "raised"]
          ELSE [returned |-> "summary",
                margin_balance |-> GetField(account_info, "totalMarginBalance"),
                maintenance_margin |-> GetField(account_info, "totalMaintMargin"),
                margin_ratio |->
                    MarginRatio(GetField(account_info, "totalMarginBalance"),
                                GetField(account_info, "totalMaintMargin"))]
    /\ UNCHANGED <<in_flight_orders, trackerLast, spotVars, connFrame>>

NextSummary ==
    \E ok \in BOOLEAN, account_info \in AccountInfos : GetAccountSummary(ok, account_info)

\* ---- the order-tracker loop of the spot connector.
\* self._in_flight_orders is a dict; it is written here as the sequence of its
\* [key, order] items in insertion order, which is the order items() yields.
\* An order is the dict the poll returned, of which orderId, clientOrderId and
\* status are kept.  One trading pair is configured and every order is on it.
Reclassified == {"FILLED", "CANCELED", "REJECTED"}

\* The position of a key in the dict, 0 when it is absent.
KeyIndex(orders, key) ==
    IF \E i \in 1..Len(orders) : orders[i].key = key
    THEN CHOOSE i \in 1..Len(orders) : orders[i].key = key
    ELSE 0

\* self._in_flight_orders[key] = order
StoreOrder(orders, key, order) ==
    IF KeyIndex(orders, key) = 0
    THEN Append(orders, [key |-> key, order |-> order])
    ELSE [orders EXCEPT ![KeyIndex(orders, key)].order = order]

\* self._in_flight_orders.pop(key, None)
PopOrder(orders, key) ==
    SelectSeq(orders, LAMBDA item : item.key # key)

\* _update_in_flight_orders once the update interval has passed: every order
\* of the reply is stored under its orderId.  _api_request as shipped answers
\* this path with its fallback dict {"success": ..., "message": ...}; the loop
\* then iterates the dict's keys and order["orderId"] on a string raises
\* TypeError before anything is stored.
RECURSIVE StoreAll(_, _)
StoreAll(orders, polled) ==
    IF polled = <<>> THEN orders
    ELSE StoreAll(StoreOrder(orders, Head(polled).orderId, Head(polled)), Tail(polled))

UpdateInFlightOrders(orders, reply) ==
    IF reply.kind = "mock"
    THEN [orders |-> orders, raised |-> "TypeError"]
    ELSE [orders |-> StoreAll(orders, reply.orders), raised |-> "none"]

\* _process_order_filled builds a TradeUpdate with a fee, _process_order_canceled
\* an OrderUpdate to CANCELED, _process_order_rejected an OrderUpdate to FAILED;
\* each hands it to the order tracker.
OrderUpdateFor(order) ==
    [client_order_id |-> order.clientOrderId,
     exchange_order_id |-> order.orderId,
     update |-> CASE order.status = "FILLED" -> "TradeUpdate with fee"
                  [] order.status = "CANCELED" -> "OrderUpdate CANCELED"
                  [] order.status = "REJECTED" -> "OrderUpdate FAILED"]

\* _process_order_message: the tracked order is looked up under the order's
\* clientOrderId; when there is none the message is dropped.  Otherwise the
\* tracked dict takes the order's fields, and for one of the three statuses the
\* handler sends its update and pops the clientOrderId key.
ProcessOrderMessage(orders, order) ==
    IF KeyIndex(orders, order.clientOrderId) = 0
    THEN [orders |-> orders, updates |-> <<>>, popped |-> FALSE]
    ELSE IF order.status \in Reclassified
    THEN [orders |-> PopOrder(orders, order.clientOrderId),
          updates |-> <<OrderUpdateFor(order)>>, popped |-> TRUE]
    ELSE [orders |-> StoreOrder(orders, order.clientOrderId, order),
          updates |-> <<>>, popped |-> FALSE]

\* _process_order_tracker_messages from item i on: the loop runs over
\* self._in_flight_orders.items() itself, so the step after a pop raises
\* RuntimeError (dictionary changed size during iteration) and the items
\* after it are not looked at.
RECURSIVE ProcessOrderTrackerMessages(_, _)
ProcessOrderTrackerMessages(orders, i) ==
    IF i > Len(orders)
    THEN [orders |-> orders, raised |-> "none", updates |-> <<>>]
    ELSE LET done == ProcessOrderMessage(orders, orders[i].order)
         IN IF done.popped
            THEN [orders |-> done.orders, raised |-> "RuntimeError",
                  updates |-> done.updates]
            ELSE ProcessOrderTrackerMessages(done.orders, i + 1)

\* The replies tried: the shipped fallback dict, and lists of at most one
\* order per exchange id.
OrderKeys == {"k1", "k2"}
PolledOrders(id) ==
    {[orderId |-> id, clientOrderId |-> c, status |-> st] :
        c \in OrderKeys \cup {"c"}, st \in Reclassified \cup {"NEW"}}
ActiveOrderReplies ==
    {[kind |-> "mock", orders |-> <<>>], [kind |-> "list", orders |-> <<>>]}
    \cup {[kind |-> "list", orders |-> <<o>>] : o \in PolledOrders("k1") \cup PolledOrders("k2")}
    \cup {[kind |-> "list", orders |-> <<o, p>>] : o \in PolledOrders("k1"), p \in PolledOrders("k2")}

\* One iteration of _order_tracker_loop: the poll when it is due, then the
\* processing; an exception of either is logged and the loop sleeps 5 seconds
\* instead of 1.
OrderTrackerLoop(due, reply) ==
    /\ \E got \in {IF due THEN UpdateInFlightOrders(in_flight_orders, reply)
                          ELSE [orders |-> in_flight_orders, raised |-> "none"]} :
       \E done \in {IF got.raised = "none"
                    THEN ProcessOrderTrackerMessages(got.orders, 1)
                    ELSE [orders |-> got.orders, raised |-> got.raised, updates |-> <<>>]} :
          /\ in_flight_orders' = done.orders
          /\ trackerLast' = [polled |-> due /\ got.raised = "none",
                             processed |-> got.raised = "none",
                             raised |-> done.raised,
                             updates |-> done.updates,
                             sleep |-> IF done.raised = "none" THEN 1 ELSE 5]
    /\ UNCHANGED <<account_summary, spotVars, connFrame>>

NextTracker ==
    \E due \in BOOLEAN, reply \in ActiveOrderReplies : OrderTrackerLoop(due, reply)

NoTrackerPass ==
    [polled |-> FALSE, processed |-> FALSE, raised |-> "none", updates |-> <<>>, sleep |-> 1]

\* ---- status of the spot connector.
\* The balances start_network and _update_balances set.
MockBalances == {[asset |-> "BTC", amount |-> 1], [asset |-> "USDT", amount |-> 10000]}

\* __init__: the flag is stored, the balances and the in-flight map are empty.
ZbitExchange(trading_required_arg) ==
    /\ spot_trading_required' = trading_required_arg
    /\ spot_account_balances' = {}
    /\ in_flight_orders' = <<>>
    /\ trackerLast' = NoTrackerPass
    /\ network' = "stopped"
    /\ UNCHANGED <<account_summary, connFrame>>

\* start_network: one fixed trading rule and the fixed balances.
StartNetwork ==
    /\ spot_account_balances' = MockBalances
    /\ network' = "started"
    /\ UNCHANGED <<spot_trading_required, account_summary, in_flight_orders, trackerLast,
                   connFrame>>

\* stop_network only logs.
StopNetwork ==
    /\ network' = "stopped"
    /\ UNCHANGED <<spot_trading_required, spot_account_balances, account_summary,
                   in_flight_orders, trackerLast, connFrame>>

\* The spot _update_balances, run by the status polling loop: the same fixed
\* balances.
SpotUpdateBalances ==
    /\ spot_account_balances' = MockBalances
    /\ UNCHANGED <<spot_trading_required, network, account_summary, in_flight_orders,
                   trackerLast, connFrame>>

\* status_dict
StatusDict ==
    [order_books_initialized |-> TRUE,
     account_balance |-> IF spot_trading_required
                         THEN Cardinality(spot_account_balances) > 0
                         ELSE TRUE,
     trading_required |-> spot_trading_required]

\* ready: all(self.status_dict.values())
Ready == \A k \in DOMAIN StatusDict : StatusDict[k]

NextSpot ==
    \/ \E trading_required_arg \in BOOLEAN : ZbitExchange(trading_required_arg)
    \/ StartNetwork
    \/ StopNetwork
    \/ SpotUpdateBalances
    \/ \E due \in BOOLEAN, reply \in {r \in ActiveOrderReplies : Len(r.orders) <= 1} :
           OrderTrackerLoop(due, reply)

\* The connector as constructed with the default trading_required = True.
InitConn ==
    /\ account_summary = [returned |-> "none"]
    /\ in_flight_orders = <<>>
    /\ trackerLast = NoTrackerPass
    /\ spot_trading_required = TRUE
    /\ spot_account_balances = {}
    /\ network = "stopped"

\* --------------------------------------------------------------- Part 11
\* ---- merge_vtt_files.  A line is written by what the merger tests of it
\* after strip(): "lang" contains 'Language:', "cue" contains '-->', "blank"
\* is empty, "text" is anything else.
TextLineBoth(en_text_line, zh_text_line) == <<en_text_line, zh_text_line>>

\* f'{en_text_line} <v> {zh_text_line}</v>\n': one line for the two text lines.
TextLine(en_text_line, zh_text_line) == <<"merged">>

\* The while loop from index i on (en_index and zh_index advance together).
\* The result counts the pairs each branch took; the text lines after a cue
\* pair are read without a bounds test, so a cue pair on the last line of
\* either file raises IndexError.
RECURSIVE MergeFrom(_, _, _, _)
MergeFrom(en_lines, zh_lines, i, acc) ==
    IF ~(i <= Len(en_lines) /\ i <= Len(zh_lines)) THEN acc
    ELSE IF en_lines[i] = "lang" \/ zh_lines[i] = "lang"
    THEN MergeFrom(en_lines, zh_lines, i + 1, [acc EXCEPT !.langs = @ + 1])
    ELSE IF en_lines[i] = "cue" /\ zh_lines[i] = "cue"
    THEN IF i + 1 > Len(en_lines) \/ i + 1 > Len(zh_lines)
         THEN [acc EXCEPT !.raised = "IndexError"]
         ELSE MergeFrom(en_lines, zh_lines, i + 2,
                        [acc EXCEPT !.merged_lines =
                                        @ \o <<"cue">> \o TextLine(en_lines[i + 1], zh_lines[i + 1]),
                                    !.cues = @ + 1])
    ELSE IF en_lines[i] = "blank" /\ zh_lines[i] = "blank"
    THEN MergeFrom(en_lines, zh_lines, i + 1,
                   [acc EXCEPT !.merged_lines = Append(@, "blank"), !.blanks = @ + 1])
    ELSE MergeFrom(en_lines, zh_lines, i + 1,
                   [acc EXCEPT !.merged_lines = @ \o <<en_lines[i], zh_lines[i]>>])

\* The English and the Chinese file of a pair.
EnLines(files) == [i \in DOMAIN files |-> files[i][1]]
ZhLines(files) == [i \in DOMAIN files |-> files[i][2]]

\* merge_vtt_files, called once for a pair of files: nothing is written when the second file cannot be read or
\* when the loop raises; otherwise merged_lines is written to the output.
MergeVttFiles(files, zh_readable) ==
    /\ vttLast.outcome = "none"
    /\ \E done \in {MergeFrom(EnLines(files), ZhLines(files), 1,
                              [merged_lines |-> <<>>, langs |-> 0, cues |-> 0, blanks |-> 0,
                               raised |-> "none"])} :
          vttLast' = [en_lines |-> EnLines(files), zh_lines |-> ZhLines(files),
                      outcome |-> IF ~zh_readable THEN "skipped"
                                  ELSE IF done.raised # "none" THEN done.raised
                                  ELSE "written",
                      output |-> IF zh_readable /\ done.raised = "none"
                                 THEN done.merged_lines ELSE <<>>,
                      langs |-> done.langs, cues |-> done.cues, blanks |-> done.blanks]
    /\ UNCHANGED <<iterable, iterators, toolFrame>>

\* The pairs of lines tried at one position, and the files built from them:
\* two files of the same length, of at most MaxLines lines.
LinePairs ==
    {<<"cue", "cue">>, <<"lang", "lang">>, <<"lang", "text">>, <<"text", "lang">>,
     <<"blank", "blank">>, <<"blank", "text">>, <<"text", "blank">>, <<"text", "text">>,
     <<"cue", "text">>}
FilePairs == UNION {[1..n -> LinePairs] : n \in 0..MaxLines}

NextVtt ==
    \E files \in IF vttLast.outcome = "none" THEN FilePairs ELSE {}, zh_readable \in BOOLEAN :
        MergeVttFiles(files, zh_readable)

\* ---- the iterator demo.
ContainerIteratorFromSecond(container) == [container |-> container, cursor |-> 1, yielded |-> <<>>, stopped |-> FALSE]

\* ContainerIterator.__init__: the cursor starts at 0.  yielded records what
\* __next__ has returned, stopped that it has raised StopIteration.
ContainerIterator(container) == [container |-> container, cursor |-> 0, yielded |-> <<>>, stopped |-> FALSE]

\* Container.__iter__: a new iterator object each time.
ContainerIter ==
    /\ Len(iterators) < MaxIterators
    /\ iterators' = Append(iterators, ContainerIterator("cont"))
    /\ UNCHANGED <<vttLast, iterable, toolFrame>>

\* ContainerIterator.__next__ on the k-th iterator obtained.
IteratorNext(k) ==
    /\ k <= Len(iterators)
    /\ ~iterators[k].stopped
    /\ iterators' =
          IF iterators[k].cursor < Len(iterable)
          THEN [iterators EXCEPT ![k].yielded = Append(@, iterable[iterators[k].cursor + 1]),
                                 ![k].cursor = @ + 1]
          ELSE [iterators EXCEPT ![k].stopped = TRUE]
    /\ UNCHANGED <<vttLast, iterable, toolFrame>>

NextContainer ==
    \/ ContainerIter
    \/ \E k \in 1..MaxIterators : IteratorNext(k)

InitTools ==
    /\ vttLast = [en_lines |-> <<>>, zh_lines |-> <<>>, outcome |-> "none", output |-> <<>>,
                  langs |-> 0, cues |-> 0, blanks |-> 0]
    /\ iterable = <<1, 2, 3, 4, 5>>
    /\ iterators = <<>>

\* --------------------------------------------------------------- Part 12
\* listen_for_subscriptions with two trading pairs configured.
ListenPairs == <<"BTC-USDT", "ETH-USDT">>
Channels == {"orderbook", "trade"}

\* One pass of the for loop body up to the message loop, for the pair the loop
\* is at: under the connect lock a WebSocket assistant is taken and connected,
\* then the order-book and the trade subscription are sent.  outcome: all of it
\* succeeds, the connection fails, or the second send fails; a failure is
\* caught by the outer handler.
ListenSubscribe(outcome) ==
    /\ listenPc = "connect"
    /\ listen_pair <= Len(ListenPairs)
    /\ ws_subscriptions' =
          ws_subscriptions \cup
          {[pair |-> ListenPairs[listen_pair], channel |-> c] :
              c \in CASE outcome = "subscribed" -> Channels
                      [] outcome = "trade_send_failed" -> {"orderbook"}
                      [] outcome = "connect_failed" -> {}}
    /\ listenPc' = IF outcome = "subscribed" THEN "listening" ELSE "backoff"
    /\ ws_last_sent' = IF outcome = "connect_failed" THEN ws_last_sent ELSE "subscribe"
    /\ UNCHANGED <<listen_pair, message_queues, listenFrame>>

\* One turn of the inner `while True`, which has no break and no return: a
\* diff or trade message is parsed and queued for the current pair, a ping is
\* answered with a pong, a receive timeout sends a ping; any other exception
\* leaves the loop for the outer handler.
ListenReceive(message) ==
    /\ listenPc = "listening"
    /\ message \in Channels =>
          message_queues[ListenPairs[listen_pair]][message] < MaxQueued
    /\ message_queues' =
          IF message \in Channels
          THEN [message_queues EXCEPT ![ListenPairs[listen_pair]][message] = @ + 1]
          ELSE message_queues
    /\ ws_last_sent' = CASE message = "ping" -> "pong"
                         [] message = "timeout" -> "ping"
                         [] OTHER -> ws_last_sent
    /\ listenPc' = IF message = "error" THEN "backoff" ELSE "listening"
    /\ UNCHANGED <<listen_pair, ws_subscriptions, listenFrame>>

\* The outer handler: the error is logged, the task sleeps 5 seconds and the
\* outer `while True` starts the for loop again at the first pair.
ListenBackoff ==
    /\ listenPc = "backoff"
    /\ listenPc' = "connect"
    /\ listen_pair' = 1
    /\ UNCHANGED <<ws_subscriptions, ws_last_sent, message_queues, listenFrame>>

\* A consumer takes a message from one of the queues.
TakeMessage(pair, channel) ==
    /\ message_queues[pair][channel] > 0
    /\ message_queues' = [message_queues EXCEPT ![pair][channel] = @ - 1]
    /\ UNCHANGED <<listenPc, listen_pair, ws_subscriptions, ws_last_sent, listenFrame>>

InitListen ==
    /\ listenPc = "connect"
    /\ listen_pair = 1
    /\ ws_subscriptions = {}
    /\ ws_last_sent = "none"
    /\ message_queues = [pair \in {ListenPairs[i] : i \in 1..Len(ListenPairs)} |->
                            [channel \in Channels |-> 0]]

NextListen ==
    \/ \E outcome \in {"subscribed", "trade_send_failed", "connect_failed"} :
           ListenSubscribe(outcome)
    \/ \E message \in Channels \cup {"ping", "timeout", "error"} : ListenReceive(message)
    \/ ListenBackoff
    \/ \E pair \in {ListenPairs[i] : i \in 1..Len(ListenPairs)}, channel \in Channels :
           TakeMessage(pair, channel)

Init ==
    /\ InitOrders /\ InitAccount /\ InitApi /\ InitCancel /\ InitLoops /\ InitTwap
    /\ InitArb /\ InitAvellaneda /\ InitXemm /\ InitConn /\ InitTools
    /\ InitListen

SpecOrders == Init /\ [][NextOrders]_vars

SpecPositions == Init /\ [][NextPositions]_vars

SpecBalances == Init /\ [][NextBalances]_vars

SpecApi == Init /\ [][NextApi]_vars

SpecCancel == Init /\ [][NextCancel]_vars

SpecCancelAll == Init /\ [][NextCancelAll]_vars

SpecLoops == Init /\ [][NextLoops]_vars

SpecPass == Init /\ [][NextPass]_vars

SpecRules == Init /\ [][NextRules]_vars

SpecTwap == Init /\ [][NextTwap]_vars

SpecArb == Init /\ [][NextArb]_vars

SpecArbRetries == Init /\ [][NextArbRetries]_vars

SpecAvWindow == Init /\ [][NextAvWindow]_vars

SpecAvellaneda == Init /\ [][NextAvellaneda]_vars

SpecXemm == Init /\ [][NextXemm]_vars

SpecXemmFills == Init /\ [][NextXemmFills]_vars

SpecSummary == Init /\ [][NextSummary]_vars

SpecTracker == Init /\ [][NextTracker]_vars

SpecSpot == Init /\ [][NextSpot]_vars

SpecVtt == Init /\ [][NextVtt]_vars

SpecContainer == Init /\ [][NextContainer]_vars

\* The event loop keeps running the listener task and the consumers.
SpecListen == Init /\ [][NextListen]_vars /\ WF_vars(NextListen)

\* ------------------------------------------------------------ Part 1 claims
\* The terminal tracker calls issued so far for order o.
TerminalCallsFor(o) ==
    {i \in 1..Len(calls) : calls[i].id = o /\ calls[i].op \in TerminalCalls}

\* C1: a status update for a tracked order, on either path, closes the order as
\* canceled for CANCELED, as failed for REJECTED and as failed for EXPIRED.
C1_TerminalClassification ==
    last.call # "untracked" =>
        /\ (last.status = "CANCELED" => last.call = "process_order_canceled")
        /\ (last.status = "REJECTED" => last.call = "process_order_failure")
        /\ (last.status = "EXPIRED" => last.call = "process_order_failure")

\* C2: every PARTIALLY_FILLED update for a tracked order, on either path, emits
\* exactly one trade update whose fill amount is the reported cumulative filled
\* quantity minus the filled quantity recorded before.
C2_PartialFillTradeUpdate ==
    (last.call # "untracked" /\ last.status = "PARTIALLY_FILLED") =>
        /\ last.trades = 1
        /\ last.amount = last.z - last.prev

\* C3: when a push event and a poll response both report a terminal status for
\* one in-flight order, then once both handlers have run the order has had exactly
\* one terminal transition, made by the handler dispatched first, and is no longer
\* in flight.
C3_OneTerminalTransition ==
    \A o \in Orders :
        ( /\ Len(dispatched) = 2
          /\ push.pc = "idle" /\ poll.pc = "idle"
          /\ dispatched[1].id = o /\ dispatched[2].id = o
          /\ dispatched[1].found
          /\ dispatched[1].path # dispatched[2].path
          /\ IsCompleted(dispatched[1].status) /\ IsCompleted(dispatched[2].status) )
        => /\ Cardinality(TerminalCallsFor(o)) = 1
           /\ \A i \in TerminalCallsFor(o) : calls[i].path = dispatched[1].path
           /\ o \notin tracked

\* ------------------------------------------------------------ Part 2 claims
\* C4: the position map holds an entry for a position id exactly when the most
\* recent report for it (push or poll) had a nonzero amount, and the entry then
\* carries that amount.
C4_PositionMapTracksNonzero ==
    \A p \in PositionIds :
        /\ p \in DOMAIN account_positions <=> (p \in DOMAIN lastReport /\ lastReport[p] # 0)
        /\ p \in DOMAIN account_positions => account_positions[p] = lastReport[p]

\* C5: after a balance refresh, the available balance of every refreshed asset is
\* its total balance minus the initial margin reserved by the open positions
\* margined in that asset.
C5_AvailableIsTotalMinusMargin ==
    lastRefresh.by = "refresh" =>
        \A a \in lastRefresh.assets :
            account_available_balances[a] = account_balances[a] - lastRefresh.reserved[a]

\* ------------------------------------------------------------ Part 3 claims
EventsOf(ev) == {i \in 1..Len(trace) : trace[i].ev = ev}

\* A response event that the dispatcher treats as an exception to retry.
IsFailure(e) ==
    \/ e.ev = "resp" /\ e.arg \in {"exception", "error"}
    \/ e.ev = "resp" /\ e.arg = "time_sync" /\ ~apiArgs.synchronizer
    \/ e.ev = "sync"

\* C6: a time-synchronization error handled by the synchronizer uses up no attempt:
\* the slot of the running attempt is the number of failures paused for so far.
C6_SyncKeepsAttemptSlot ==
    apiPc \in {"attempt", "send", "recv"} => retry = Cardinality(EventsOf("sleep"))

\* C7: a non-200 response other than a time-synchronization error handled by a
\* synchronizer ends the call at once with an error: nothing follows it.
C7_ErrorRaisesAtOnce ==
    \A i \in EventsOf("resp") :
        (trace[i].arg = "error" \/ (trace[i].arg = "time_sync" /\ ~apiArgs.synchronizer))
        => /\ i = Len(trace)
           /\ apiPc = "done"
           /\ result = "raised_exec"

\* C8: failures other than a parse failure are retried after a pause at most
\* twice: at most 3 HTTP attempts, every pause follows a failure, the call raises
\* for such a failure only in its third attempt slot, and the third failure in a
\* row raises.
C8_RetryBudget ==
    /\ Cardinality(EventsOf("http")) <= 3
    /\ Cardinality(EventsOf("sleep")) <= 2
    /\ \A i \in EventsOf("sleep") : i > 1 /\ IsFailure(trace[i - 1])
    /\ result = "raised_exec" =>
           /\ IsFailure(trace[Len(trace)])
           /\ trace[Len(trace)].slot = 2
    /\ ( /\ apiPc = "done"
         /\ Cardinality(EventsOf("sleep")) = 2
         /\ trace[Len(trace)].ev = "resp"
         /\ IsFailure(trace[Len(trace)]) ) => result = "raised_exec"

C8_Witness ==
    /\ result = "raised_exec"
    /\ Cardinality(EventsOf("http")) = 3
    /\ Cardinality(EventsOf("sleep")) = 2

HttpPrecededByAcquire ==
    \A i \in EventsOf("http") :
        /\ i > 1
        /\ trace[i - 1] = [ev |-> "acquire", slot |-> trace[i].slot,
                           arg |-> ResolvedLimitId(apiArgs)]

\* C10 as stated: the rate limiter is acquired before every HTTP attempt.
C10_AcquireBeforeEveryHttp == apiPc # "idle" => HttpPrecededByAcquire

\* C10 amended: when a throttler was supplied, the rate limiter is acquired for
\* the resolved limit id before every HTTP attempt, retries included.
C10_AcquireWhenThrottler == apiArgs.throttler => HttpPrecededByAcquire

C10_Witness ==
    /\ apiArgs.throttler
    /\ apiArgs.limit_id = ""
    /\ \E i \in EventsOf("http") : trace[i].slot >= 1

\* ------------------------------------------------------------ Part 4 claims
BatchRequests(p) ==
    {i \in 1..Len(requests) :
        requests[i].path = "cancelAllOrders" /\ requests[i].target = p}

SingleRequests(o) ==
    {i \in 1..Len(requests) : requests[i].path = "cancel" /\ requests[i].target = o}

ResultsFor(o) ==
    {i \in 1..Len(cancellation_results) :
        cancellation_results[i].client_order_id = o}

\* An order is reached when a request covering it was issued: a single cancel
\* for it, or a batched cancel of its pair that returned.
Reached(o) ==
    \/ SingleRequests(o) # {}
    \/ \E i \in BatchRequests(PairOf[o]) : requests[i].ok

\* C11: cancel_all issues at most one batched cancelAllOrders request per
\* trading pair, a finished call has issued one for the pair of every order it
\* found, and a per-order cancel request is only ever issued after the batched
\* request of that order's pair has failed.
C11_BatchFirstThenSingles ==
    /\ \A o \in CancelOrders : Cardinality(BatchRequests(PairOf[o])) <= 1
    /\ cancelPc = "done" => \A o \in snapshot : BatchRequests(PairOf[o]) # {}
    /\ \A i \in 1..Len(requests) :
          requests[i].path = "cancel" =>
              \E j \in 1..(i - 1) :
                  /\ requests[j].path = "cancelAllOrders"
                  /\ requests[j].target = PairOf[requests[i].target]
                  /\ ~requests[j].ok

C11_Witness ==
    /\ cancelPc = "done"
    /\ \E i, j \in 1..Len(requests) :
          /\ requests[i].path = "cancel"
          /\ requests[j].path = "cancelAllOrders" /\ requests[j].ok

\* C12: a finished cancel_all holds exactly one result for every order that
\* was active when it was called and none for any other; no per-order cancel
\* request starts after the deadline; an order no request reached is reported
\* as failed.
C12_OneResultPerOrder ==
    /\ \A o \in CancelOrders : Cardinality(ResultsFor(o)) <= 1
    /\ \A i \in 1..Len(cancellation_results) :
          cancellation_results[i].client_order_id \in snapshot
    /\ \A i \in 1..Len(requests) :
          requests[i].path = "cancel" => requests[i].at <= deadline
    /\ cancelPc = "done" =>
          \A o \in snapshot :
              /\ Cardinality(ResultsFor(o)) = 1
              /\ ~Reached(o) =>
                    \A i \in ResultsFor(o) : ~cancellation_results[i].success

C12_Witness ==
    /\ cancelPc = "done"
    /\ now > deadline
    /\ \E o, q \in snapshot :
          /\ SingleRequests(o) # {}
          /\ ~Reached(q)
          /\ InSeq(q, active_orders)

\* C13: a cancel the venue answers with "order does not exist" signals
\* not-found to the tracker and does not raise to the caller of cancel().
C13_NotFoundIsNotAnError ==
    lastCancel.reply = "not_exist" =>
        lastCancel.signal = "not_found" /\ ~lastCancel.raised

\* ------------------------------------------------------------ Part 5 claims
\* C14: an order-status pass works in batches of at most 20 orders and, when
\* it is over, has handled every tracked client order id.
C14_EveryTrackedOrderHandled ==
    /\ \A i \in 1..Len(batches) : Len(batches[i]) <= max_batch_size
    /\ passPc = "done" => handled = 1..tracked_n

IsPrefix(p, q) == Len(p) <= Len(q) /\ \A i \in 1..Len(p) : p[i] = q[i]

\* The polling loop has finished the try body of a cycle and sleeps before the next.
CycleOver == loopPc[Polling] = "sleep"

C16_EndsOnlyWhenCancelled ==
    [][/\ loopPc'[Polling] \in {"raised", "returned"} => Polling \in delivered'
       /\ errors' > errors => loopPc'[Polling] = "sleep"
       /\ loopPc[Polling] = "sleep" =>
             \/ loopPc'[Polling] = "sleep"
             \/ loopPc'[Polling] = Updates[1] /\ cycle' = <<>>
             \/ loopPc'[Polling] = "raised" /\ Polling \in delivered']_vars

C16_Witness ==
    /\ errors > 0
    /\ loopPc[Polling] = "balances"
    /\ cycle = <<"order_status">>
    /\ Polling \notin delivered

\* C17: a cancellation delivered to a long-running loop is re-raised out of
\* it: from then on the loop is unwinding or has ended with the cancellation
\* raised, and it neither returns normally nor runs another iteration.
C17_CancellationReRaised ==
    \A l \in delivered : loopPc[l] \in {"unwind", "raised"}

\* The entries of the fetched document that are valid and whose numbers parse.
GoodEntries ==
    {i \in 1..Len(exchange_info) :
        /\ {"symbol", "status", "baseAsset", "quoteAsset"} \subseteq exchange_info[i].keys
        /\ exchange_info[i].minQty \in {"1", "2"}}

\* C18: after a refresh that went through, the table holds a rule for exactly
\* the trading pairs of the valid, parseable entries of the fetched document,
\* each rule built from such an entry of that pair; nothing else is in it,
\* whatever the table held before and whatever other entries the document has.
C18_TableRebuiltFromDocument ==
    refreshed =>
        /\ DOMAIN trading_rules =
              {exchange_info[i].baseAsset \o "-USDT" : i \in GoodEntries}
        /\ \A p \in DOMAIN trading_rules :
              \E i \in GoodEntries :
                  /\ exchange_info[i].baseAsset \o "-USDT" = p
                  /\ exchange_info[i].minQty = IF trading_rules[p] = 1 THEN "1" ELSE "2"

C18_Witness ==
    /\ refreshed
    /\ prior_rules = {"BTC-USDT", "ETH-USDT"}
    /\ DOMAIN trading_rules = {"BTC-USDT"}
    /\ \E i \in 1..Len(exchange_info) :
          exchange_info[i].minQty = "x" /\ exchange_info[i].baseAsset = "ETH"

C20_SliceOnlyWhenIdleAndDue ==
    twapLast.op = "tick" =>
        /\ twapLast.placed =>
              /\ twapLast.idle
              /\ twapLast.elapsed >= OrderDelayTime \/ current_timestamp = 1
        /\ /\ filled_total > 0
           /\ twapLast.idle
           /\ twapLast.elapsed >= OrderDelayTime
           /\ twapLast.before > 0
           => twapLast.placed

\* C20 as the code has it: a tick places a slice exactly when the markets are
\* ready, no order is open, quantity is left, the delay has elapsed since the
\* previous attempt or no attempt was made yet, and the balance covers a slice.
C20_SliceWhenIdleDueAndFunded ==
    twapLast.op = "tick" =>
        (twapLast.placed <=>
            /\ twapLast.ready
            /\ twapLast.idle
            /\ twapLast.before > 0
            /\ twapLast.elapsed >= OrderDelayTime \/ twapLast.first
            /\ twapLast.balance)

C20_Witness ==
    /\ twapLast.op = "tick"
    /\ twapLast.placed
    /\ ~twapLast.first
    /\ filled_total > 0

\* ------------------------------------------------------------ Part 7 claims
\* C21: in sequential mode the second leg of the proposal is submitted by
\* execute_arb_proposals only when, at that moment, the first leg's completion
\* signal has fired and the first leg has not failed.
C21_SecondLegAfterFirstCompleted ==
    ~concurrent_orders_submission =>
        \A i \in DOMAIN arb_orders :
            (arb_orders[i].side = "second" /\ arb_orders[i].by = "execute") =>
                (arb_orders[i].first_completed /\ ~arb_orders[i].first_failed)

C21_Witness ==
    /\ arbPc = "done"
    /\ ~concurrent_orders_submission
    /\ \E i \in DOMAIN arb_orders :
           arb_orders[i].side = "second" /\ arb_orders[i].by = "execute"

RetriesOf(order_id) ==
    Cardinality({t \in DOMAIN retry_tasks : retry_tasks[t].origin = order_id})

\* C22: the retries triggered by the failures of one order id never number
\* more than max_retries (so none when max_retries is 0), and a retry places
\* its order only after its sleep.
C22_RetriesWithinMaximum ==
    arbPc # "new" =>
        /\ \A order_id \in DOMAIN arb_orders : RetriesOf(order_id) <= max_retries
        /\ \A i \in DOMAIN arb_orders :
               arb_orders[i].by = "retry" =>
                   \E t \in DOMAIN retry_tasks :
                       retry_tasks[t].state = "done" /\ retry_tasks[t].side = arb_orders[i].side

C22_Witness ==
    /\ max_retries = MaxRetries
    /\ \E order_id \in DOMAIN arb_orders : RetriesOf(order_id) = max_retries
    /\ \E i \in DOMAIN arb_orders : arb_orders[i].by = "retry"

C24_BidBelowAsk ==
    (avLast.updated /\ avLast.mid > 0) => optimal.bid < optimal.ask

\* C25: the sample window holds at most volatility_window samples, and they
\* are the most recent ones in arrival order.
C25_WindowHoldsMostRecent ==
    /\ Len(price_samples) = Min(samples_taken, volatility_window)
    /\ \A i \in DOMAIN price_samples :
           price_samples[i] = samples_taken - Len(price_samples) + i

C25_Witness ==
    /\ samples_taken = 60
    /\ Len(price_samples) = 50
    /\ price_samples[1] = 11
    /\ price_samples[50] = 60

RECURSIVE SumPlaced(_, _)
SumPlaced(flags, amounts) ==
    IF flags = <<>> THEN 0
    ELSE (IF Head(flags) THEN Head(amounts) ELSE 0) + SumPlaced(Tail(flags), Tail(amounts))

\* C26: in one ladder placement the quote required by the buys placed sums
\* to no more than the quote balance read at the start, and the amounts of
\* the sells placed to no more than the base balance read at the start.
C26_LadderWithinBalances ==
    avLast.placed =>
        /\ SumPlaced(avLast.buys, [i \in 1..order_levels |-> RequiredQuote(optimal, i - 1)])
               <= 3 * avLast.quote * optimal.den
        /\ SumPlaced(avLast.sells, [i \in 1..order_levels |-> SellAmount(i - 1)])
               <= 12 * avLast.base

C26_Witness ==
    /\ avLast.placed
    /\ avLast.buys = <<FALSE, TRUE>>
    /\ avLast.sells = <<TRUE, FALSE>>

\* ------------------------------------------------------------ Part 9 claims
\* C27: on a tick that starts with an active bid and an active ask and whose
\* new proposed bid and ask both differ from the active averages by less than
\* order_refresh_tolerance_pct, no maker order is cancelled or placed.
C27_NoChurnWithinTolerance ==
    (xemmLast.both_active /\ xemmLast.within) =>
        (xemmLast.cancelled = 0 /\ xemmLast.placed = <<>>)

\* C28: every maker order placed is larger than min_order_amount, no larger
\* than order_amount (2) and no larger than the balance read allows: quote
\* balance / price for a bid, base balance for an ask.
C28_OrderSizeWithinLimits ==
    \A i \in DOMAIN xemmLast.placed :
        LET o == xemmLast.placed[i]
        IN  /\ Less(Frac(min_order_amount, 1), o.amount)
            /\ ~Less(Frac(2, 1), o.amount)
            /\ IF o.side = "bid"
               THEN o.amount.n * o.price.n <= o.balance * o.amount.d * o.price.d
               ELSE o.amount.n <= o.balance * o.amount.d

C28_Witness ==
    /\ min_order_amount = 1
    /\ \E i \in DOMAIN xemmLast.placed :
           xemmLast.placed[i].side = "bid" /\ Less(xemmLast.placed[i].amount, Frac(2, 1))
    /\ \E i \in DOMAIN xemmLast.placed :
           xemmLast.placed[i].side = "ask" /\ xemmLast.placed[i].amount = Frac(2, 1)

\* ----------------------------------------------------------- Part 10 claims
\* Two fractions with the same value.
SameValue(p, q) == p.n * q.d = q.n * p.d

\* C29 (as stated): a returned summary has margin_ratio 999 when the
\* maintenance margin is exactly zero, and for every other maintenance margin
\* the margin balance divided by the maintenance margin.
C29_RatioIsQuotientUnlessZero ==
    account_summary.returned = "summary" =>
        IF account_summary.maintenance_margin = 0
        THEN SameValue(account_summary.margin_ratio, Frac(999, 1))
        ELSE SameValue(account_summary.margin_ratio,
                       Frac(account_summary.margin_balance,
                            account_summary.maintenance_margin))

\* C29 (amended): a returned summary has margin_ratio 999 when the maintenance
\* margin is zero, negative or missing, and the margin balance divided by the
\* maintenance margin when the maintenance margin is positive; no call ends in
\* a division error.
C29_RatioIsQuotientWhenPositive ==
    /\ account_summary.returned \in {"none", "empty", "raised", "summary"}
    /\ account_summary.returned = "raised" => trading_required
    /\ account_summary.returned = "summary" =>
          IF account_summary.maintenance_margin > 0
          THEN SameValue(account_summary.margin_ratio,
                         Frac(account_summary.margin_balance,
                              account_summary.maintenance_margin))
          ELSE account_summary.margin_ratio = Frac(999, 1)

\* A summary for margin balance 500 and maintenance margin 50: the ratio is 10.
C29_Witness ==
    /\ account_summary.returned = "summary"
    /\ account_summary.margin_balance = 500
    /\ account_summary.maintenance_margin = 50
    /\ SameValue(account_summary.margin_ratio, Frac(10, 1))

\* C30: after a pass of the tracker loop that processed the in-flight orders,
\* no order with status FILLED, CANCELED or REJECTED is left in the in-flight
\* map.
C30_ReclassifiedOrdersRemoved ==
    trackerLast.processed =>
        \A i \in 1..Len(in_flight_orders) :
            in_flight_orders[i].order.status \notin Reclassified

\* C31: in every state of the spot connector every entry of status_dict is
\* true and ready is true.
C31_AlwaysHealthy ==
    /\ \A k \in DOMAIN StatusDict : StatusDict[k]
    /\ Ready

\* ----------------------------------------------------------- Part 11 claims
\* The two files have the same number of lines and their '-->' lines are at
\* the same positions, and the merge wrote its output.
MergedAlignedFiles ==
    /\ vttLast.outcome = "written"
    /\ Len(vttLast.en_lines) = Len(vttLast.zh_lines)
    /\ \A i \in 1..Len(vttLast.en_lines) :
          vttLast.en_lines[i] = "cue" <=> vttLast.zh_lines[i] = "cue"

C33_EveryIteratorStartsAtFirst ==
    \A k \in 1..Len(iterators) :
        /\ iterators[k].yielded = SubSeq(iterable, 1, Len(iterators[k].yielded))
        /\ iterators[k].stopped => iterators[k].yielded = <<1, 2, 3, 4, 5>>

\* An iterator advanced three times and left, and two others drained.
C33_Witness ==
    /\ Len(iterators) = 3
    /\ iterators[1].yielded = <<1, 2, 3>> /\ ~iterators[1].stopped
    /\ iterators[2].stopped /\ iterators[2].yielded = <<1, 2, 3, 4, 5>>
    /\ iterators[3].stopped /\ iterators[3].yielded = <<1, 2, 3, 4, 5>>

\* ------------------------------------------------ Part 7 claims, continued
\* C34: the price of every order placed by a retry is the re-fetched quote
\* with the slippage buffer of the leg's own market applied: quote * (1 +
\* buffer) for a buy, quote * (1 - buffer) for a sell, on either market.
C34_RetryPriceUsesOwnBuffer ==
    \A t \in DOMAIN retry_tasks :
        retry_tasks[t].quote > 0 =>
            retry_tasks[t].price =
                RetryPriceOwnBuffer(IsBuy(retry_tasks[t].side), retry_tasks[t].side = "first",
                                    retry_tasks[t].quote)

\* The orders placed by retries for one side of the proposal.
RetryOrdersOf(side) ==
    {i \in DOMAIN arb_orders : arb_orders[i].side = side /\ arb_orders[i].by = "retry"}

\* C36: for each side of the proposal the orders placed by retries never
\* number more than max_retries.
C36_RetryOrdersPerSideWithinMaximum ==
    arbPc # "new" =>
        \A side \in ArbSides : Cardinality(RetryOrdersOf(side)) <= max_retries

\* C37: in sequential mode, once execute_arb_proposals has ended and an order
\* of the first leg has completed successfully, a failure of that leg
\* notwithstanding, the second leg has been submitted.
C37_FirstLegNeverAlone ==
    (/\ ~concurrent_orders_submission
     /\ arbPc = "done"
     /\ sides["first"].failed
     /\ first_side_filled)
        => \E i \in DOMAIN arb_orders : arb_orders[i].side = "second"

\* ------------------------------------------------ Part 3 claims, continued
\* C35: every call of api_request that has ended either returned the parsed
\* body of a 200 response or raised an error.
C35_ReturnsBodyOrRaises ==
    apiPc = "done" => result \in {"returned", "raised_parse", "raised_exec"}

\* ------------------------------------------------ Part 6 claims, continued
\* C38: the remaining quantity is never negative and the total filled never
\* exceeds the target amount.
C38_RemainingNeverNegative ==
    /\ quantity_remaining >= 0
    /\ filled_total <= target_asset_amount

\* ----------------------------------------------------------- Part 12 claims
\* Both channels of every configured pair have been subscribed.
EveryPairSubscribed ==
    \A i \in 1..Len(ListenPairs) :
        \A c \in Channels : [pair |-> ListenPairs[i], channel |-> c] \in ws_subscriptions

\* C39: with several pairs configured the listener eventually subscribes to
\* the order-book and trade channels of every configured pair.
C39_EventuallyEveryPairSubscribed == <>EveryPairSubscribed

\* C40: every order in the local active-bid and active-ask lists is still open
\* on the maker market, so the refresh-tolerance comparison never averages the
\* price of an order that was filled or cancelled.
C40_ListsHoldOnlyOpenOrders == xemmLast.averaged_closed = FALSE

====
